---------------------------- MODULE Spec2Model ----------------------------
(***************************************************************************)
(* A model of variant_forest: the classification tree with its cached      *)
(* out-of-bag prediction (src/src/tree.rs), the forest driver and its      *)
(* worker pool (src/src/random_forest.rs) and the Boruta loop              *)
(* (src/src/boruta.rs), over three-valued columns and a boolean response.  *)
(*                                                                         *)
(* Rust vectors are 0-based; they are sequences here and At(v, i) reads    *)
(* element i.  Option<T> is <<>> (None) or <<v>> (Some(v)).  f64 Gini      *)
(* scores and binomial tail probabilities are exact rationals <<num,den>>. *)
(* A value drawn from an Rng is a nondeterministic choice.                 *)
(***************************************************************************)
EXTENDS Integers, Sequences, FiniteSets, Bags, TLC

(***************************************************************************)
(* Bounds of the model.                                                    *)
(***************************************************************************)
NRow == 6          \* rows of the data frame of the tree specification
MaxDepthArg == 1   \* largest max_tree_depth = Some(d) tried by build_tree
MaxBasePasses == 2 \* unpermuted prediction passes run on one tree
MaxSeed == 1       \* seeds 0..MaxSeed of a RandomForest
MaxNtree == 2      \* ntree of importance_per_tree ranges over 0..MaxNtree
MaxThreads == 2    \* multithread = Some(t) ranges over t in 0..MaxThreads
FNcol == 2         \* columns of the frame handed to importance_per_tree
MaxBCol == 2       \* columns of the frame handed to boruta: 0..MaxBCol
XRow == 3          \* rows of the frames of the frame specification
MaxXCol == 5       \* XDf::new is given 1..MaxXCol columns
MaxSubsetLen == 2  \* subset is given every id list of 0..MaxSubsetLen ids
MaxXOps == 3       \* calls of subset and add_shadows on one frame
MaxRuns == 3       \* max_runs of boruta ranges over 0..MaxRuns
CRow == 4          \* rows of the column, response and masks of the column specification
MaxSNcol == 3      \* ncol of the stream factory ranges over 1..MaxSNcol
MaxSNtree == 3     \* ntree of the stream factory ranges over 1..MaxSNtree
MaxStreams == 2    \* streams held at once in the stream specification
MaxSampleLen == 5  \* slices of 0..MaxSampleLen elements are sampled; nrow of a forest

(***************************************************************************)
(* Constants of the program.                                               *)
(***************************************************************************)
SHADOW_SEED == 451256125  \* boruta: RngFactory::new(iter + 451256125, ..)
FOREST_SEED == 75754      \* boruta: RandomForest::new(iter + 75754)
MIN_SHADOWS == 5          \* add_shadows: while num_shadow < 5
SAMPLE_FRACTION == <<66, 100>>  \* random_forest: const SAMPLE_FRACTION: f64 = 0.66

(***************************************************************************)
(* The state.  Three programs are modelled, each by a specification of its *)
(* own that leaves the variables of the other two at their idle values:    *)
(* one Tree (tr and the t_ variables), one call of importance_per_tree     *)
(* (the f_ variables), and boruta (b_in, b_run, and b_alt for a second     *)
(* execution on the same arguments).                                       *)
(***************************************************************************)
VARIABLES t_df, t_y, t_bag, t_oob, t_args, tr, t_phase, t_nbase, t_last, t_imp

VARIABLES f_in, f_pc, f_rng_factory, f_w, f_mutex, f_ith_tree_mut, f_chan, f_nrecv, f_imp

VARIABLES b_in, b_run, b_alt

VARIABLES x_df, x_prev, x_call, x_ops

VARIABLES s_in, s_out

VARIABLES c_col, c_y, c_mask, c_out
\* one call of Rng::sample or of Mask::random_mask with its OOB mask
VARIABLES m_in, m_out

tvars == <<t_df, t_y, t_bag, t_oob, t_args, tr, t_phase, t_nbase, t_last, t_imp>>

fvars == <<f_in, f_pc, f_rng_factory, f_w, f_mutex, f_ith_tree_mut, f_chan, f_nrecv, f_imp>>

bvars == <<b_in, b_run, b_alt>>

xvars == <<x_df, x_prev, x_call, x_ops>>

svars == <<s_in, s_out>>

cvars == <<c_col, c_y, c_mask, c_out>>

mvars == <<m_in, m_out>>

ovars == <<xvars, svars, cvars, mvars>>

vars == <<tvars, fvars, bvars, ovars>>

(***************************************************************************)
(* Vectors, options, rationals.                                            *)
(***************************************************************************)
At(v, i) == v[i + 1]

None == <<>>

Some(v) == <<v>>

Range(s) == {s[k] : k \in 1..Len(s)}

SetMin(S) == CHOOSE m \in S : \A o \in S : m <= o

SetMax(S) == CHOOSE m \in S : \A o \in S : m >= o

RECURSIVE RemoveFirst(_, _)
RemoveFirst(s, e) ==
    IF s = <<>> THEN <<>>
    ELSE IF Head(s) = e THEN Tail(s)
    ELSE <<Head(s)>> \o RemoveFirst(Tail(s), e)

RECURSIVE SortAsc(_)
SortAsc(s) ==
    IF s = <<>> THEN <<>>
    ELSE LET m == SetMin(Range(s))
         IN  <<m>> \o SortAsc(RemoveFirst(s, m))

\* The sequences that hold every element of the finite set S exactly once.
RECURSIVE Orders(_)
Orders(S) ==
    IF S = {} THEN {<<>>}
    ELSE UNION {{<<e>> \o o : o \in Orders(S \ {e})} : e \in S}

\* a/b < c/d and a/b + c/d for denominators > 0
RatLt(p, q) == p[1] * q[2] < q[1] * p[2]

RatAdd(p, q) == <<p[1] * q[2] + q[1] * p[2], p[2] * q[2]>>

(***************************************************************************)
(* mask.rs                                                                 *)
(***************************************************************************)
Mask_new(mask_val) == SortAsc(mask_val)

get_by_mask(mask, x) == [k \in 1..Len(mask) |-> At(x, mask[k])]

\* One enumeration of a HashSet (largest element first).
RECURSIVE SetToSeq(_)
SetToSeq(S) == IF S = {} THEN <<>> ELSE <<SetMax(S)>> \o SetToSeq(S \ {SetMax(S)})

\* The set difference is enumerated in the HashSet's order; Mask::new sorts it.
Mask_inverse(mask, range) == Mask_new(SetToSeq(Range(range) \ Range(mask)))

(***************************************************************************)
(* random_number_generator.rs, random_number_generator/factory.rs          *)
(***************************************************************************)
\* A generator is the stream (seed, increment) it was created on.
Rng_new(seed, incr) == [seed |-> seed, incr |-> incr]

\* Rng::shuffle on a fresh generator: a permutation of x that the stream
\* alone determines (the stream's stand-in permutation is a rotation).
shuffle(rng, x) ==
    [k \in 1..Len(x) |-> x[((k - 1 + rng.seed + rng.incr) % Len(x)) + 1]]

\* What Rng::sample(0..n, k) can return for 1 <= k <= n (Algorithm L): slot
\* j starts as j and is only ever overwritten by an index >= k, and every
\* index is written to at most one slot.
sample(n, k) ==
    {s \in [1..k -> 0..(n - 1)] :
        /\ \A a, b \in 1..k : s[a] = s[b] => a = b
        /\ \A j \in 1..k : s[j] = j - 1 \/ s[j] >= k}

\* The while loop of Rng::sample from position i on: every draw of the skip
\* (at least 1; skips past n + 1 end the loop alike) and of the slot
\* next_usize(k) gives one outcome; res holds positions of x.
RECURSIVE SampleLoop(_, _, _, _)
SampleLoop(res, i, n, k) ==
    IF i > n THEN {res}
    ELSE UNION {
        IF i + skip < n
        THEN UNION {SampleLoop([res EXCEPT ![slot + 1] = i + skip], i + skip, n, k)
                    : slot \in 0..(k - 1)}
        ELSE SampleLoop(res, i + skip, n, k)
        : skip \in 1..(n + 1 - i) }

SamplePanic == [res |-> <<>>, idx |-> <<>>, panic |-> TRUE]

\* Rng::sample(x, k): the outcomes [res, idx, panic], idx the positions of x
\* the elements of res were read from.  For k = 0 the subtraction k - 1
\* overflows: a build with overflow checks panics, a build without wraps to
\* usize::MAX, skips the loop and returns the empty vector.
Rng_sample(x, k) ==
    IF k > Len(x) THEN {SamplePanic}
    ELSE IF k = 0 THEN {SamplePanic, [res |-> <<>>, idx |-> <<>>, panic |-> FALSE]}
    ELSE {[res |-> [j \in 1..k |-> At(x, idx[j])], idx |-> idx, panic |-> FALSE]
          : idx \in SampleLoop([j \in 1..k |-> j - 1], k - 1, Len(x), k)}

\* (n as f64 * sample_fraction).floor() as usize, the fraction as a ratio
SampleSize(n, sample_fraction) == (n * sample_fraction[1]) \div sample_fraction[2]

\* A random_mask that keeps the sample in the order Rng::sample returns it.
random_mask_unsorted(n, sample_fraction) ==
    {[mask |-> r.res, panic |-> r.panic]
     : r \in Rng_sample([j \in 1..n |-> j - 1], SampleSize(n, sample_fraction))}

\* Mask::random_mask(n, sample_fraction, rng): the outcomes [mask, panic]
random_mask(n, sample_fraction) ==
    {[mask |-> Mask_new(r.res), panic |-> r.panic]
     : r \in Rng_sample([j \in 1..n |-> j - 1], SampleSize(n, sample_fraction))}

\* RandomForest::importance: y.len() as f64 - (y.len() as f64 * SAMPLE_FRACTION).floor()
oob_n(nrow) == nrow - SampleSize(nrow, SAMPLE_FRACTION)

\* ncol, ntree: Option<usize>
RngFactory_new(seed, ncol, ntree) == [seed |-> seed, ncol |-> ncol, ntree |-> ntree]

new_rng_shadow(f, col_id) == Rng_new(f.seed, col_id + 1)

new_rng_tree(f, ith_tree) == Rng_new(f.seed, f.ncol[1] + ith_tree + 1)

new_rng_tree_mask(f, ith_tree) == Rng_new(f.seed, f.ncol[1] + f.ntree[1] + ith_tree + 1)

\* if increment == 0 { panic!("Increment must be larger than 0.") }
Rng_new_panics(incr) == incr = 0

\* A permutation stream numbered without the row stride ncol.
new_rng_permutation_flat(f, ith_tree, col_id) ==
    Rng_new(f.seed, f.ncol[1] + f.ntree[1] * 2 + ith_tree + col_id + 1)

new_rng_permutation(f, ith_tree, col_id) ==
    Rng_new(f.seed, f.ncol[1] + f.ntree[1] * 2 + ith_tree * f.ncol[1] + col_id + 1)

(***************************************************************************)
(* data_interface/three_val.rs                                             *)
(***************************************************************************)
ThreeVal == {"Red", "Green", "Blue"}

ThreeValPivot == {"NotRed", "NotGreen", "NotBlue"}

\* An equality that holds exactly for the excluded category.
PivotEq_excluded(p, v) ==
    \/ p = "NotRed" /\ v = "Red"
    \/ p = "NotGreen" /\ v = "Green"
    \/ p = "NotBlue" /\ v = "Blue"

\* impl PartialEq<ThreeVal> for ThreeValPivot
PivotEq(p, v) ==
    CASE p = "NotRed" /\ v = "Red" -> FALSE
      [] p = "NotGreen" /\ v = "Green" -> FALSE
      [] p = "NotBlue" /\ v = "Blue" -> FALSE
      [] OTHER -> TRUE

\* A fold that pushes a row with p == value on both sides.
RECURSIVE SplitFold_both(_, _, _, _)
SplitFold_both(x, mask, p, k) ==
    IF k > Len(mask) THEN <<<<>>, <<>>>>
    ELSE IF PivotEq(p, x[k])
         THEN << <<mask[k]>> \o SplitFold_both(x, mask, p, k + 1)[1],
                 <<mask[k]>> \o SplitFold_both(x, mask, p, k + 1)[2] >>
         ELSE << SplitFold_both(x, mask, p, k + 1)[1],
                 <<mask[k]>> \o SplitFold_both(x, mask, p, k + 1)[2] >>

\* The fold of split_with_pivot: acc[0] takes the rows with p == value.
RECURSIVE SplitFold(_, _, _, _)
SplitFold(x, mask, p, k) ==
    IF k > Len(mask) THEN <<<<>>, <<>>>>
    ELSE LET rest == SplitFold(x, mask, p, k + 1)
         IN  IF PivotEq(p, x[k])
             THEN <<<<mask[k]>> \o rest[1], rest[2]>>
             ELSE <<rest[1], <<mask[k]>> \o rest[2]>>

split_with_pivot(col, mask, p) ==
    LET x == get_by_mask(mask, col)
        acc == SplitFold(x, mask, p, 1)
    IN  <<Mask_new(acc[1]), Mask_new(acc[2])>>

\* ThreeValCol::permute: the values at the masked rows are shuffled among
\* the masked rows; the other rows keep their value.
permute(col, perm_rng, oob_mask) ==
    LET x == shuffle(perm_rng, get_by_mask(oob_mask, col))
    IN  [i \in 1..Len(col) |->
            IF \E k \in 1..Len(oob_mask) : oob_mask[k] = i - 1
            THEN x[CHOOSE k \in 1..Len(oob_mask) : oob_mask[k] = i - 1]
            ELSE col[i]]

(***************************************************************************)
(* gini/x_threeval_y_bool.rs                                               *)
(***************************************************************************)
GiniPart(t, f, n) ==
    IF t + f > 0 THEN <<(t + f) * (t + f) - (t * t + f * f), (t + f) * n>>
    ELSE <<0, 1>>

_gini(num_xt_yt, num_xt_yf, num_xf_yt, num_xf_yf, n) ==
    RatAdd(GiniPart(num_xt_yt, num_xt_yf, n), GiniPart(num_xf_yt, num_xf_yf, n))

Count(x, y, v, b) == Cardinality({k \in 1..Len(x) : x[k] = v /\ y[k] = b})

\* x, y: the masked values; n > 0 (n = 0 panics: see gen_optimal_pivot)
gini_x_threeval_y_bool(x, y, n) ==
    LET num_xr_yt == Count(x, y, "Red", TRUE)
        num_xr_yf == Count(x, y, "Red", FALSE)
        num_xg_yt == Count(x, y, "Green", TRUE)
        num_xg_yf == Count(x, y, "Green", FALSE)
        num_xb_yt == Count(x, y, "Blue", TRUE)
        num_xb_yf == Count(x, y, "Blue", FALSE)
    IN  << _gini(num_xg_yt + num_xb_yt, num_xg_yf + num_xb_yf, num_xr_yt, num_xr_yf, n),
           _gini(num_xr_yt + num_xb_yt, num_xr_yf + num_xb_yf, num_xg_yt, num_xg_yf, n),
           _gini(num_xr_yt + num_xg_yt, num_xr_yf + num_xg_yf, num_xb_yt, num_xb_yf, n) >>

\* A pivot choice whose comparisons also hold on equal costs.
gen_optimal_pivot_nonstrict(col, mask, y, shadow_rng) ==
    IF Len(mask) = 0 THEN [pivot |-> "NotRed", score |-> <<0, 1>>, panic |-> TRUE]
    ELSE IF ~RatLt(gini_x_threeval_y_bool(get_by_mask(mask, col), get_by_mask(mask, y), Len(mask))[2],
                   gini_x_threeval_y_bool(get_by_mask(mask, col), get_by_mask(mask, y), Len(mask))[1])
            /\ ~RatLt(gini_x_threeval_y_bool(get_by_mask(mask, col), get_by_mask(mask, y), Len(mask))[3],
                      gini_x_threeval_y_bool(get_by_mask(mask, col), get_by_mask(mask, y), Len(mask))[1])
    THEN [pivot |-> "NotRed",
          score |-> gini_x_threeval_y_bool(get_by_mask(mask, col), get_by_mask(mask, y), Len(mask))[1],
          panic |-> FALSE]
    ELSE IF ~RatLt(gini_x_threeval_y_bool(get_by_mask(mask, col), get_by_mask(mask, y), Len(mask))[3],
                   gini_x_threeval_y_bool(get_by_mask(mask, col), get_by_mask(mask, y), Len(mask))[2])
    THEN [pivot |-> "NotGreen",
          score |-> gini_x_threeval_y_bool(get_by_mask(mask, col), get_by_mask(mask, y), Len(mask))[2],
          panic |-> FALSE]
    ELSE [pivot |-> "NotBlue",
          score |-> gini_x_threeval_y_bool(get_by_mask(mask, col), get_by_mask(mask, y), Len(mask))[3],
          panic |-> FALSE]

\* shadow_rng: Option<Rng>; with Some the whole column is shuffled first.
\* Returns [pivot, score, panic].
gen_optimal_pivot(col, mask, y, shadow_rng) ==
    IF Len(mask) = 0 THEN [pivot |-> "NotRed", score |-> <<0, 1>>, panic |-> TRUE]
    ELSE
    LET x == IF shadow_rng # None THEN shuffle(shadow_rng[1], col) ELSE col
        s == gini_x_threeval_y_bool(get_by_mask(mask, x), get_by_mask(mask, y), Len(mask))
        lt01 == RatLt(s[1], s[2])
        lt02 == RatLt(s[1], s[3])
        lt12 == RatLt(s[2], s[3])
    IN  CASE lt01 /\ lt02 -> [pivot |-> "NotRed", score |-> s[1], panic |-> FALSE]
          [] ~lt01 /\ lt12 -> [pivot |-> "NotGreen", score |-> s[2], panic |-> FALSE]
          [] ~lt02 /\ ~lt12 -> [pivot |-> "NotBlue", score |-> s[3], panic |-> FALSE]
          [] OTHER -> [pivot |-> "NotRed", score |-> s[1], panic |-> TRUE]

(***************************************************************************)
(* data_interface/y_bool.rs                                                *)
(***************************************************************************)
\* Option<Y>; an empty mask hits unreachable!() (panic)
get_class(y, mask) ==
    LET v == Range(get_by_mask(mask, y))
    IN  IF v = {TRUE, FALSE} THEN [class |-> None, panic |-> FALSE]
        ELSE IF v = {FALSE} THEN [class |-> Some(FALSE), panic |-> FALSE]
        ELSE IF v = {TRUE} THEN [class |-> Some(TRUE), panic |-> FALSE]
        ELSE [class |-> None, panic |-> TRUE]

\* The classes get_major_class may return: on a tie the Rng decides.
get_major_class(y, mask) ==
    LET v == get_by_mask(mask, y)
        nf == Cardinality({k \in 1..Len(v) : v[k] = FALSE})
        nt == Cardinality({k \in 1..Len(v) : v[k] = TRUE})
    IN  IF nf > nt THEN {FALSE} ELSE IF nf < nt THEN {TRUE} ELSE {TRUE, FALSE}

\* preds: Predicted<Y>, aligned with the mask
pred_incorrect(y, mask, preds) ==
    LET v == get_by_mask(mask, y)
        n == IF Len(v) < Len(preds) THEN Len(v) ELSE Len(preds)
    IN  Cardinality({k \in 1..n : v[k] # preds[k]})

(***************************************************************************)
(* data_interface/multi_x.rs                                               *)
(***************************************************************************)
XDf_new(cols) ==
    [data |-> cols,
     idx_to_splitid_map |-> [i \in 1..Len(cols) |-> i - 1],
     splitid_to_idx_map |-> [i \in 1..Len(cols) |-> i - 1]]

get_col(df, col) == At(df.data, col)

idx_to_splitid(df, idx) == At(df.idx_to_splitid_map, idx)

splitid_to_idx(df, splitid) == At(df.splitid_to_idx_map, splitid)

get_ncol(df) == Len(df.data)

\* ColumnIdentifiable for ColSplitIndex
get_col_id(split_index) == [col_id |-> split_index.col_id, shadow |-> split_index.shadow]

\* The first minimum of the candidates' scores, as Iterator::min_by returns it.
RECURSIVE MinBy(_, _)
MinBy(cands, k) ==
    IF k = Len(cands) THEN cands[k]
    ELSE LET rest == MinBy(cands, k + 1)
         IN  IF RatLt(rest.score, cands[k].score) THEN rest ELSE cands[k]

\* The ColSplitIndex values the call can return, one per outcome of
\* rng.sample; [panic |-> TRUE] when gen_optimal_pivot panics.
find_min_idx(df, mask, y, mtry, rng_factory, shadow_vars) ==
    LET range == IF shadow_vars THEN get_ncol(df) * 2 ELSE get_ncol(df)
        Cand(c) ==
            LET is_shadow == c >= get_ncol(df)
                col == IF is_shadow THEN c - get_ncol(df) ELSE c
                shadow_rng == IF is_shadow THEN Some(new_rng_shadow(rng_factory, col)) ELSE None
                res == gen_optimal_pivot(get_col(df, col), mask, y, shadow_rng)
            IN  [pivot |-> res.pivot, score |-> res.score, panic |-> res.panic,
                 col_id |-> idx_to_splitid(df, col), shadow |-> is_shadow]
    IN  { LET cands == [k \in 1..mtry |-> Cand(s[k])]
              min_idx == MinBy(cands, 1)
          IN  [col_id |-> min_idx.col_id, pivot |-> min_idx.pivot, shadow |-> min_idx.shadow,
               panic |-> \E k \in 1..mtry : cands[k].panic]
          : s \in sample(range, mtry) }

\* A make_split that takes the split-id for the physical column index.
make_split_by_index(df, idx, mask, permuted_vec) ==
    split_with_pivot(IF permuted_vec # None THEN permuted_vec[1] ELSE get_col(df, idx.col_id),
                     mask, idx.pivot)

\* permuted_vec: Option<&MultiX>
make_split(df, idx, mask, permuted_vec) ==
    LET col == IF permuted_vec # None THEN permuted_vec[1]
               ELSE get_col(df, splitid_to_idx(df, idx.col_id))
    IN  split_with_pivot(col, mask, idx.pivot)

permute_index(df, col_id, rng_factory, oob_mask, ith_tree) ==
    permute(get_col(df, splitid_to_idx(df, col_id.col_id)),
            new_rng_permutation(rng_factory, ith_tree, col_id.col_id), oob_mask)

\* Vec::resize(new_len, value)
Resize(v, new_len, value) ==
    [k \in 1..new_len |-> IF k <= Len(v) THEN v[k] ELSE value]

\* A subset that keeps the source's splitid_to_idx_map as it is.
subset_stale_map(df, split_ids) ==
    IF \E k \in 1..Len(split_ids) : split_ids[k].col_id >= Len(df.splitid_to_idx_map)
    THEN [df |-> df, panic |-> TRUE]
    ELSE [df |-> [data |-> [k \in 1..Len(split_ids) |->
                              At(df.data, At(df.splitid_to_idx_map, split_ids[k].col_id))],
                  idx_to_splitid_map |-> [k \in 1..Len(split_ids) |-> split_ids[k].col_id],
                  splitid_to_idx_map |-> df.splitid_to_idx_map],
          panic |-> FALSE]

\* split_ids: Vec<SplitColId>.  Returns [df, panic]: panic when a col_id
\* indexes past the end of splitid_to_idx_map.
subset(df, split_ids) ==
    LET idx_to_splitid_map == [k \in 1..Len(split_ids) |-> split_ids[k].col_id]
        fits == \A k \in 1..Len(split_ids) :
                    split_ids[k].col_id < Len(df.splitid_to_idx_map)
        \* the loop's last write to an entry wins
        splitid_to_idx_map ==
            [j \in 1..Len(df.splitid_to_idx_map) |->
                IF \E k \in 1..Len(split_ids) : split_ids[k].col_id = j - 1
                THEN SetMax({k \in 1..Len(split_ids) : split_ids[k].col_id = j - 1}) - 1
                ELSE df.splitid_to_idx_map[j]]
    IN  IF ~fits THEN [df |-> df, panic |-> TRUE]
        ELSE [df |-> [data |-> [k \in 1..Len(split_ids) |->
                                  get_col(df, splitid_to_idx(df, split_ids[k].col_id))],
                      idx_to_splitid_map |-> idx_to_splitid_map,
                      splitid_to_idx_map |-> splitid_to_idx_map],
              panic |-> FALSE]

\* A shadow count that is doubled at most once.
NumShadow_once(n) == IF n < MIN_SHADOWS THEN n * 2 ELSE n

\* let mut num_shadow = self.data.len(); while num_shadow < 5 { num_shadow *= 2 }
\* (n > 0: the loop does not end for n = 0)
RECURSIVE NumShadow(_)
NumShadow(n) == IF n < MIN_SHADOWS THEN NumShadow(n * 2) ELSE n

\* The loop of add_shadows from shadow i on: data grows while it is indexed.
RECURSIVE AddShadowLoop(_, _, _, _, _, _)
AddShadowLoop(df, rng_factory, mask, max_splitid, num_shadow, i) ==
    IF i >= num_shadow THEN df
    ELSE LET rng == new_rng_shadow(rng_factory, i)
             col == permute(At(df.data, i % Len(df.data)), rng, mask)
             idx_to_splitid_map == Append(df.idx_to_splitid_map, max_splitid + i + 1)
         IN  AddShadowLoop(
                [data |-> Append(df.data, col),
                 idx_to_splitid_map |-> idx_to_splitid_map,
                 splitid_to_idx_map |->
                     [df.splitid_to_idx_map EXCEPT ![max_splitid + i + 2] =
                                                       Len(idx_to_splitid_map) - 1]],
                rng_factory, mask, max_splitid, num_shadow, i + 1)

\* Returns [df, panic]: data[0] panics on a frame without columns.
add_shadows(df, rng_factory) ==
    IF Len(df.data) = 0 THEN [df |-> df, panic |-> TRUE]
    ELSE LET mask == Mask_new([k \in 1..Len(df.data[1]) |-> k - 1])
             max_splitid == SetMax(Range(df.idx_to_splitid_map))
             num_shadow == NumShadow(Len(df.data))
         IN  [df |-> AddShadowLoop(
                        [df EXCEPT !.splitid_to_idx_map =
                                       Resize(@, max_splitid + num_shadow + 1, 0)],
                        rng_factory, mask, max_splitid, num_shadow, 0),
              panic |-> FALSE]

\* The split-ids of the frame in ascending order.
get_col_ids_sorted(df) ==
    [k \in 1..Len(df.idx_to_splitid_map) |->
        [col_id |-> SortAsc(df.idx_to_splitid_map)[k], shadow |-> FALSE]]

get_col_ids(df) ==
    [k \in 1..Len(df.idx_to_splitid_map) |->
        [col_id |-> df.idx_to_splitid_map[k], shadow |-> FALSE]]

(***************************************************************************)
(* tree.rs: the arena and build_tree                                       *)
(***************************************************************************)
create_leaf(class) == [kind |-> "Lf", class |-> class]

create_split(split_index, l_child_idx, r_child_idx) ==
    [kind |-> "Sp",
     split_index |-> [col_id |-> split_index.col_id, pivot |-> split_index.pivot,
                      shadow |-> split_index.shadow],
     l_child_idx |-> l_child_idx, r_child_idx |-> r_child_idx]

BuildPanic == [nodes |-> <<>>, split_cols |-> {}, panic |-> TRUE]

\* Leaves of either class, whatever the mask holds.
BuildLeaves_any(classes) ==
    {[nodes |-> <<create_leaf(c)>>, split_cols |-> {}, panic |-> FALSE] : c \in BOOLEAN}

BuildLeaves(classes) ==
    {[nodes |-> <<create_leaf(c)>>, split_cols |-> {}, panic |-> FALSE] : c \in classes}

\* A Split whose child handles are counted from the start of its own subtree.
BuildSplit_relative(split_idx, l, r, base) ==
    [nodes |-> l.nodes \o r.nodes
                 \o <<create_split(split_idx, Len(l.nodes) - 1,
                                   Len(l.nodes) + Len(r.nodes) - 1)>>,
     split_cols |-> l.split_cols \cup r.split_cols \cup {get_col_id(split_idx)},
     panic |-> FALSE]

\* A Split pushed without its right subtree: both handles name the left child.
BuildSplit_one_child(split_idx, l, r, base) ==
    [nodes |-> l.nodes
                 \o <<create_split(split_idx, base + Len(l.nodes) - 1,
                                   base + Len(l.nodes) - 1)>>,
     split_cols |-> l.split_cols \cup r.split_cols \cup {get_col_id(split_idx)},
     panic |-> FALSE]

\* The Split is pushed after both subtrees, and its column recorded.
BuildSplit(split_idx, l, r, base) ==
    [nodes |-> l.nodes \o r.nodes
                 \o <<create_split(split_idx, base + Len(l.nodes) - 1,
                                   base + Len(l.nodes) + Len(r.nodes) - 1)>>,
     split_cols |-> l.split_cols \cup r.split_cols \cup {get_col_id(split_idx)},
     panic |-> FALSE]

\* The outcomes of one call: the nodes it pushes on an arena that holds
\* base nodes, and the columns it adds to split_cols.
RECURSIVE _build_tree(_, _, _, _, _, _, _, _, _)
_build_tree(df, y, mask, mtry, shadow_vars, max_tree_depth, tree_depth, rng_factory, base) ==
    LET class == get_class(y, mask)
    IN  IF class.panic THEN {BuildPanic}
        ELSE IF class.class # None THEN BuildLeaves({class.class[1]})
        ELSE IF max_tree_depth # None /\ tree_depth >= max_tree_depth[1]
        THEN BuildLeaves(get_major_class(y, mask))
        ELSE UNION {
            IF split_idx.panic THEN {BuildPanic}
            ELSE LET masks == make_split(df, split_idx, mask, None)
                 IN  IF Len(masks[1]) = 0 \/ Len(masks[2]) = 0
                     THEN BuildLeaves(get_major_class(y, mask))
                     ELSE UNION {
                         IF l.panic THEN {BuildPanic}
                         ELSE { IF r.panic THEN BuildPanic ELSE BuildSplit(split_idx, l, r, base)
                                : r \in _build_tree(df, y, masks[2], mtry, shadow_vars,
                                                    max_tree_depth, tree_depth + 1,
                                                    rng_factory, base + Len(l.nodes)) }
                         : l \in _build_tree(df, y, masks[1], mtry, shadow_vars,
                                             max_tree_depth, tree_depth + 1, rng_factory, base) }
            : split_idx \in find_min_idx(df, mask, y, mtry, rng_factory, shadow_vars) }

\* Tree::new
Tree_new(ith_tree, rng_factory) ==
    [tree |-> <<>>, split_cols |-> {}, mask_cache |-> <<>>, preds_cache |-> <<>>,
     split_mask_map |-> <<>>, split_idx_cache_range |-> <<>>, preds_cache_range |-> <<>>,
     rng_factory |-> rng_factory, ith_tree |-> ith_tree]

\* The trees build_tree can leave in t (panic: the call panicked).
build_tree(t, df, y, mask, mtry, shadow_vars, max_tree_depth) ==
    { [t |-> [t EXCEPT !.tree = t.tree \o b.nodes, !.split_cols = t.split_cols \cup b.split_cols],
       panic |-> b.panic]
      : b \in _build_tree(df, y, mask, mtry, shadow_vars, max_tree_depth, 0, t.rng_factory,
                           Len(t.tree)) }

(***************************************************************************)
(* tree.rs: predict and its caches                                         *)
(***************************************************************************)
\* tree.last() for node_id = None
NodeOf(t, node_id) == IF node_id = None THEN t.tree[Len(t.tree)] ELSE At(t.tree, node_id[1])

\* preds[mask_ranks[i]] = Some(class) for every row i of the mask
WritePreds(preds, mask, mask_ranks, class) ==
    [k \in 1..Len(preds) |->
        IF \E j \in 1..Len(mask) : At(mask_ranks, mask[j]) = k - 1
        THEN Some(class) ELSE preds[k]]

\* st = [t, preds, ret]: the tree with its caches, the output vector and
\* the returned split counter.
RECURSIVE _predict_write_cache(_, _, _, _, _, _)

\* Node::Lf(leaf) of _predict_write_cache, on the tree t of st
WriteCacheLeaf(st, t, mask, node, mask_ranks, split_idx) ==
    [t |-> [t EXCEPT
         !.mask_cache = Append(@, mask),
         !.preds_cache_range = Append(@, <<Len(t.preds_cache), Len(t.preds_cache) + Len(mask)>>),
         !.preds_cache = @ \o [j \in 1..Len(mask) |->
                                  <<node.class, At(mask_ranks, mask[j])>>],
         !.split_idx_cache_range = Append(@, <<split_idx, split_idx>>)],
     preds |-> WritePreds(st.preds, mask, mask_ranks, node.class),
     ret |-> split_idx]

\* The pushes of a Split whose split range holds its own number only.
WriteCacheSplit_own(sr, mask, col, split_idx, preds_len_0) ==
    [t |-> [sr.t EXCEPT
         !.mask_cache = Append(@, mask),
         !.split_idx_cache_range = Append(@, <<sr.ret, sr.ret>>),
         !.preds_cache_range = Append(@, <<preds_len_0, Len(sr.t.preds_cache)>>),
         !.split_mask_map =
             IF col \in DOMAIN @
             THEN [@ EXCEPT ![col] = Append(@, sr.ret)]
             ELSE (col :> <<sr.ret>>) @@ @],
     preds |-> sr.preds,
     ret |-> sr.ret + 1]

\* The pushes of Node::Sp(split) once both children are done: sr is the
\* state after the right child, col the column of the split.
WriteCacheSplit(sr, mask, col, split_idx, preds_len_0) ==
    [t |-> [sr.t EXCEPT
         !.mask_cache = Append(@, mask),
         !.split_idx_cache_range = Append(@, <<split_idx, sr.ret>>),
         !.preds_cache_range = Append(@, <<preds_len_0, Len(sr.t.preds_cache)>>),
         !.split_mask_map =
             IF col \in DOMAIN @
             THEN [@ EXCEPT ![col] = Append(@, sr.ret)]
             ELSE (col :> <<sr.ret>>) @@ @],
     preds |-> sr.preds,
     ret |-> sr.ret + 1]

\* The right child, from the state sl the left child leaves.
WriteCacheRight(sl, df, mask, node, mask_ranks) ==
    _predict_write_cache(sl, df, mask, Some(node.r_child_idx), mask_ranks, sl.ret)

\* Node::Sp(split) of _predict_write_cache, with the masks of make_split
WriteCacheChildren(st, df, mask, masks, node, mask_ranks, split_idx) ==
    WriteCacheSplit(
        WriteCacheRight(
            _predict_write_cache(st, df, masks[1], Some(node.l_child_idx), mask_ranks, split_idx),
            df, masks[2], node, mask_ranks),
        mask, get_col_id(node.split_index), split_idx, Len(st.t.preds_cache))

WriteCacheNode(st, df, mask, node, mask_ranks, split_idx) ==
    IF node.kind = "Lf"
    THEN WriteCacheLeaf(st, st.t, mask, node, mask_ranks, split_idx)
    ELSE WriteCacheChildren(st, df, mask, make_split(df, node.split_index, mask, None),
                            node, mask_ranks, split_idx)

_predict_write_cache(st, df, mask, node_id, mask_ranks, split_idx) ==
    WriteCacheNode(st, df, mask, NodeOf(st.t, node_id), mask_ranks, split_idx)

\* _preds_read_cache with the range test made strict at both ends: a Split
\* on the permuted column no longer counts as inside its own subtree.
_preds_read_cache_strict(t, node_id, permuted_col, preds) ==
    LET node == At(t.tree, node_id)
        Miss == [hit |-> FALSE, preds |-> preds, panic |-> FALSE]
    IN  IF node.kind # "Sp" THEN Miss
        ELSE IF permuted_col \in DOMAIN t.split_mask_map
                /\ node_id >= Len(t.split_idx_cache_range)
        THEN [hit |-> FALSE, preds |-> preds, panic |-> TRUE]
        ELSE IF permuted_col \in DOMAIN t.split_mask_map
                /\ \E k \in 1..Len(t.split_mask_map[permuted_col]) :
                      LET idx == t.split_mask_map[permuted_col][k]
                      IN  /\ At(t.split_idx_cache_range, node_id)[1] < idx
                          /\ At(t.split_idx_cache_range, node_id)[2] > idx
        THEN Miss
        ELSE IF node_id >= Len(t.preds_cache_range)
        THEN [hit |-> FALSE, preds |-> preds, panic |-> TRUE]
        ELSE LET r == At(t.preds_cache_range, node_id)
             IN  IF r[1] < Len(t.preds_cache)
                 THEN [hit |-> TRUE,
                       preds |-> [k \in 1..Len(preds) |->
                           IF \E i \in r[1]..(r[2] - 1) : At(t.preds_cache, i)[2] = k - 1
                           THEN Some(At(t.preds_cache,
                                        SetMax({i \in r[1]..(r[2] - 1) :
                                                   At(t.preds_cache, i)[2] = k - 1}))[1])
                           ELSE preds[k]],
                       panic |-> FALSE]
                 ELSE Miss

\* Returns [hit, preds, panic]: hit when the subtree's cached predictions
\* were replayed into preds; panic on an index past the end of a cache.
_preds_read_cache(t, node_id, permuted_col, preds) ==
    LET node == At(t.tree, node_id)
        Miss == [hit |-> FALSE, preds |-> preds, panic |-> FALSE]
    IN  IF node.kind # "Sp" THEN Miss
        ELSE IF permuted_col \in DOMAIN t.split_mask_map
                /\ node_id >= Len(t.split_idx_cache_range)
        THEN [hit |-> FALSE, preds |-> preds, panic |-> TRUE]
        ELSE IF permuted_col \in DOMAIN t.split_mask_map
                /\ \E k \in 1..Len(t.split_mask_map[permuted_col]) :
                      LET idx == t.split_mask_map[permuted_col][k]
                      IN  /\ At(t.split_idx_cache_range, node_id)[1] <= idx
                          /\ At(t.split_idx_cache_range, node_id)[2] >= idx
        THEN Miss
        ELSE IF node_id >= Len(t.preds_cache_range)
        THEN [hit |-> FALSE, preds |-> preds, panic |-> TRUE]
        ELSE LET r == At(t.preds_cache_range, node_id)
             IN  IF r[1] < Len(t.preds_cache)
                 THEN [hit |-> TRUE,
                       preds |-> [k \in 1..Len(preds) |->
                           IF \E i \in r[1]..(r[2] - 1) : At(t.preds_cache, i)[2] = k - 1
                           THEN Some(At(t.preds_cache,
                                        SetMax({i \in r[1]..(r[2] - 1) :
                                                   At(t.preds_cache, i)[2] = k - 1}))[1])
                           ELSE preds[k]],
                       panic |-> FALSE]
                 ELSE Miss

\* po = [preds, panic].  permuted_col: SplitIndex::Col (the caller passes Some)
RECURSIVE _predict(_, _, _, _, _, _, _, _, _)

\* The second half of one child of a Split: r is what _preds_read_cache
\* returned for the child (a miss when the cache is skipped).
PredictChildFrom(t, df, mask, permuted_col, permuted_vec, child_idx, altered, r, mask_ranks) ==
    IF r.panic THEN [preds |-> r.preds, panic |-> TRUE]
    ELSE IF r.hit THEN [preds |-> r.preds, panic |-> FALSE]
    ELSE _predict(t, df, mask, permuted_col, permuted_vec, Some(child_idx), altered,
                  [preds |-> r.preds, panic |-> FALSE], mask_ranks)

\* if permute || altered || !self._preds_read_cache(child, ..) { self._predict(child, ..) }
\* with altered standing for permute || altered
PredictChild(t, df, mask, permuted_col, permuted_vec, child_idx, altered, po, mask_ranks) ==
    IF po.panic THEN po
    ELSE PredictChildFrom(t, df, mask, permuted_col, permuted_vec, child_idx, altered,
             IF altered THEN [hit |-> FALSE, preds |-> po.preds, panic |-> FALSE]
             ELSE _preds_read_cache(t, child_idx, permuted_col, po.preds),
             mask_ranks)

\* let masks = ..: the cached masks of the children, or make_split; reading
\* mask_cache past its end panics.
ChildMasks(t, df, mask, node, permuted_vec, permute_, altered) ==
    IF Len(t.mask_cache) > 0 /\ ~permute_ /\ ~altered
    THEN IF node.l_child_idx >= Len(t.mask_cache) \/ node.r_child_idx >= Len(t.mask_cache)
         THEN [masks |-> <<mask, mask>>, panic |-> TRUE]
         ELSE [masks |-> <<At(t.mask_cache, node.l_child_idx),
                           At(t.mask_cache, node.r_child_idx)>>,
               panic |-> FALSE]
    ELSE [masks |-> make_split(df, node.split_index, mask,
                               IF permute_ THEN Some(permuted_vec) ELSE None),
          panic |-> FALSE]

\* Node::Sp(split) of _predict once masks are there: left child, then right.
PredictChildren(t, df, cm, permuted_col, permuted_vec, node, altered, po, mask_ranks) ==
    IF cm.panic THEN [preds |-> po.preds, panic |-> TRUE]
    ELSE PredictChild(t, df, cm.masks[2], permuted_col, permuted_vec, node.r_child_idx, altered,
             PredictChild(t, df, cm.masks[1], permuted_col, permuted_vec, node.l_child_idx,
                          altered, po, mask_ranks),
             mask_ranks)

\* Node::Sp(split) of _predict; permute_ is the local permute.
PredictSplit(t, df, mask, permuted_col, permuted_vec, node, permute_, altered, po, mask_ranks) ==
    PredictChildren(t, df, ChildMasks(t, df, mask, node, permuted_vec, permute_, altered),
                    permuted_col, permuted_vec, node, altered \/ permute_, po, mask_ranks)

PredictNode(t, df, mask, permuted_col, permuted_vec, node, altered, po, mask_ranks) ==
    IF node.kind = "Lf"
    THEN [po EXCEPT !.preds = WritePreds(@, mask, mask_ranks, node.class)]
    ELSE PredictSplit(t, df, mask, permuted_col, permuted_vec, node,
                      permuted_col = get_col_id(node.split_index), altered, po, mask_ranks)

_predict(t, df, mask, permuted_col, permuted_vec, node_id, altered, po, mask_ranks) ==
    IF po.panic THEN po
    ELSE PredictNode(t, df, mask, permuted_col, permuted_vec, NodeOf(t, node_id), altered, po,
                     mask_ranks)

\* mask_ranks as importance computes it: usize::MAX is -1 here.
MaskRanks(n, mask) ==
    [i \in 1..n |-> IF \E k \in 1..Len(mask) : mask[k] = i - 1
                    THEN (CHOOSE k \in 1..Len(mask) : mask[k] = i - 1) - 1
                    ELSE -1]

\* preds.iter().map(|&x| x.unwrap()).collect(): a None panics.
PredictResult(t, preds, panic) ==
    [t |-> t, preds |-> preds, panic |-> panic \/ \E k \in 1..Len(preds) : preds[k] = None]

PredictWritten(st) == PredictResult(st.t, st.preds, FALSE)

PredictRead(t, po) == PredictResult(t, po.preds, po.panic)

\* permuted_col: Option<SplitIndex::Col>.  Returns [t, preds, panic]; preds
\* is the Vec<Option<Y>> that the final unwrap turns into Predicted<Y>,
\* panicking on a None.
predict(t, df, mask, permuted_col, mask_ranks) ==
    IF permuted_col = None
    THEN PredictWritten(
             _predict_write_cache([t |-> t, preds |-> [k \in 1..Len(mask) |-> None], ret |-> 0],
                                  df, mask, None, mask_ranks, 0))
    ELSE PredictRead(t,
             _predict(t, df, mask, permuted_col[1],
                      permute_index(df, permuted_col[1], t.rng_factory, mask, t.ith_tree),
                      None, FALSE,
                      [preds |-> [k \in 1..Len(mask) |-> None], panic |-> FALSE], mask_ranks))

Unwrap(preds) == [k \in 1..Len(preds) |-> preds[k][1]]

\* The body of the loop of importance with the difference taken the other
\* way round.
ImportanceEntry_swapped(acc, col, r, y, mask, pred_err) ==
    IF r.panic
    THEN [acc EXCEPT !.panic = TRUE, !.calls = Append(@, Some(col))]
    ELSE [t |-> r.t,
          importance |-> (col :> (pred_err - pred_incorrect(y, mask, Unwrap(r.preds))))
                             @@ acc.importance,
          calls |-> Append(acc.calls, Some(col)),
          panic |-> FALSE]

\* The body of the loop of importance for column col, r being what
\* predict(.., Some(col), ..) returned: importance.insert(col, pred_perm_err
\* as i64 - pred_err as i64)
ImportanceEntry(acc, col, r, y, mask, pred_err) ==
    IF r.panic
    THEN [acc EXCEPT !.panic = TRUE, !.calls = Append(@, Some(col))]
    ELSE [t |-> r.t,
          importance |-> (col :> (pred_incorrect(y, mask, Unwrap(r.preds)) - pred_err))
                             @@ acc.importance,
          calls |-> Append(acc.calls, Some(col)),
          panic |-> FALSE]

\* order: the HashSet's enumeration of split_cols.  Returns
\* [t, importance, calls, panic]: calls lists the predict calls made, each
\* with its permuted_col.
RECURSIVE ImportanceLoop(_, _, _, _, _, _, _, _)
ImportanceLoop(acc, df, y, mask, mask_ranks, order, pred_err, k) ==
    IF k > Len(order) \/ acc.panic THEN acc
    ELSE ImportanceLoop(
             ImportanceEntry(acc, order[k],
                             predict(acc.t, df, mask, Some(order[k]), mask_ranks),
                             y, mask, pred_err),
             df, y, mask, mask_ranks, order, pred_err, k + 1)

\* importance after the baseline pass, r being what it returned.
ImportanceFrom(r, df, y, mask, mask_ranks, order) ==
    IF r.panic THEN [t |-> r.t, importance |-> <<>>, calls |-> <<None>>, panic |-> TRUE]
    ELSE ImportanceLoop([t |-> r.t, importance |-> <<>>, calls |-> <<None>>, panic |-> FALSE],
                        df, y, mask, mask_ranks, order,
                        pred_incorrect(y, mask, Unwrap(r.preds)), 1)

importance(t, df, y, mask, order) ==
    ImportanceFrom(predict(t, df, mask, None, MaskRanks(Len(y), mask)),
                   df, y, mask, MaskRanks(Len(y), mask), order)

(***************************************************************************)
(* random_forest.rs: importance_per_tree                                   *)
(***************************************************************************)
\* next_tree followed by Tree::importance for tree ith_tree.  The bag mask,
\* the tree and the permutations are drawn from the streams the factory
\* hands out for ith_tree, so the map is a function of those streams (and of
\* df, y and the arguments, fixed here): the columns of the map are read off
\* the tree stream and each value off the column's permutation stream.
tree_importance(rng_factory, ith_tree) ==
    LET rng == new_rng_tree(rng_factory, ith_tree)
        cols == {c \in 0..(rng_factory.ncol[1] - 1) : (rng.seed + rng.incr + c) % 3 # 0}
    IN  [c \in cols |->
            LET perm_rng == new_rng_permutation(rng_factory, ith_tree, c)
            IN  ((perm_rng.seed + perm_rng.incr) % 3) - 1]

\* imp.entry(sp).and_modify(push).or_insert(vec![val]) for every entry with
\* an overwrite in place of the push.
merge_tree_imp_overwrite(imp, tree_imp) ==
    [sp \in DOMAIN imp \cup DOMAIN tree_imp |->
        IF sp \in DOMAIN tree_imp THEN <<tree_imp[sp]>> ELSE imp[sp]]

\* for (sp, val) in tree_imp.iter(): imp.entry(*sp).and_modify(|row|
\* row.push(*val)).or_insert(vec![*val])
merge_tree_imp(imp, tree_imp) ==
    [sp \in DOMAIN imp \cup DOMAIN tree_imp |->
        IF sp \notin DOMAIN tree_imp THEN imp[sp]
        ELSE IF sp \in DOMAIN imp THEN Append(imp[sp], tree_imp[sp])
        ELSE <<tree_imp[sp]>>]

\* A guard that is never dropped.
drop_guard_kept(mutex, w) == mutex

\* drop(ith_tree_guard) by worker w
drop_guard(mutex, w) == IF mutex = Some(w) THEN None ELSE mutex

\* The sequential branch: the trees 0..ntree-1 in order, from tree i on.
\* Returns [imp, panic]; bad holds the trees whose computation panics.
RECURSIVE sequential_branch(_, _, _, _, _)
sequential_branch(imp, rng_factory, ntree, bad, i) ==
    IF i >= ntree THEN [imp |-> imp, panic |-> FALSE]
    ELSE IF i \in bad THEN [imp |-> imp, panic |-> TRUE]
    ELSE sequential_branch(merge_tree_imp(imp, tree_importance(rng_factory, i)),
                           rng_factory, ntree, bad, i + 1)

(***************************************************************************)
(* The forest specification: one call of importance_per_tree.  f_in holds  *)
(* the arguments and the set of trees on which next_tree or importance     *)
(* panics; the workers of the parallel branch take one step at a time.     *)
(***************************************************************************)
Workers == IF f_in.multithread = None THEN {} ELSE 1..f_in.multithread[1]

NoWorker == [pc |-> "unspawned", ith_tree |-> 0, tree_imp |-> <<>>]

FInit ==
    /\ \E seed \in 0..MaxSeed, ntree \in 0..MaxNtree,
          multithread \in {None} \cup {Some(n) : n \in 0..MaxThreads} :
          \E bad \in SUBSET (0..(ntree - 1)) :
             f_in = [seed |-> seed, ntree |-> ntree, multithread |-> multithread, bad |-> bad]
    /\ f_pc = "call"
    /\ f_rng_factory = RngFactory_new(0, None, None)
    /\ f_w = [w \in 1..MaxThreads |-> NoWorker]
    /\ f_mutex = None
    /\ f_ith_tree_mut = 0
    /\ f_chan = <<>>
    /\ f_nrecv = 0
    /\ f_imp = <<>>
    \* the tree is idle
    /\ t_df = <<>> /\ t_y = <<>> /\ t_bag = <<>> /\ t_oob = <<>> /\ t_args = <<>>
    /\ tr = <<>> /\ t_phase = "idle" /\ t_nbase = 0 /\ t_last = <<>> /\ t_imp = <<>>
    \* boruta is idle
    /\ b_in = <<>> /\ b_run = <<>> /\ b_alt = <<>>
    \* frames, streams and columns are idle
    /\ x_df = <<>> /\ x_prev = <<>> /\ x_call = <<>> /\ x_ops = 0
    /\ s_in = <<>> /\ s_out = <<>>
    /\ m_in = <<>> /\ m_out = <<>>
    /\ c_col = <<>> /\ c_y = <<>> /\ c_mask = <<>> /\ c_out = <<>>

\* The factory is made and the branch chosen; thread::scope spawns the workers.
FEnter ==
    /\ f_pc = "call"
    /\ f_rng_factory' = RngFactory_new(f_in.seed, Some(FNcol), Some(f_in.ntree))
    /\ f_pc' = IF f_in.multithread # None THEN "scope" ELSE "sequential"
    /\ f_w' = [w \in 1..MaxThreads |->
                  IF w \in Workers THEN [NoWorker EXCEPT !.pc = "lock"] ELSE NoWorker]
    /\ UNCHANGED <<f_in, f_mutex, f_ith_tree_mut, f_chan, f_nrecv, f_imp>>
    /\ UNCHANGED <<tvars, bvars, ovars>>

\* Worker w: ith_tree_mut.lock().unwrap()
WLock ==
    \E w \in Workers :
        /\ f_pc = "scope"
        /\ f_w[w].pc = "lock"
        /\ f_mutex = None
        /\ f_mutex' = Some(w)
        /\ f_w' = [f_w EXCEPT ![w].pc = "locked"]
        /\ UNCHANGED <<f_in, f_pc, f_rng_factory, f_ith_tree_mut, f_chan, f_nrecv, f_imp>>
        /\ UNCHANGED <<tvars, bvars, ovars>>

\* Under the guard: read the counter; leave the loop when it has reached
\* ntree, else increment it; the guard is dropped on both paths.
WTake ==
    \E w \in Workers :
        /\ f_w[w].pc = "locked"
        /\ f_mutex = Some(w)
        /\ IF f_ith_tree_mut >= f_in.ntree
           THEN /\ f_w' = [f_w EXCEPT ![w].pc = "joined"]
                /\ UNCHANGED f_ith_tree_mut
           ELSE /\ f_w' = [f_w EXCEPT ![w].pc = "compute", ![w].ith_tree = f_ith_tree_mut]
                /\ f_ith_tree_mut' = f_ith_tree_mut + 1
        /\ f_mutex' = drop_guard(f_mutex, w)
        /\ UNCHANGED <<f_in, f_pc, f_rng_factory, f_chan, f_nrecv, f_imp>>
        /\ UNCHANGED <<tvars, bvars, ovars>>

\* next_tree, inverse and tree.importance; a panic ends the thread.
WCompute ==
    \E w \in Workers :
        /\ f_w[w].pc = "compute"
        /\ f_w' = IF f_w[w].ith_tree \in f_in.bad
                  THEN [f_w EXCEPT ![w].pc = "panicked"]
                  ELSE [f_w EXCEPT ![w].pc = "send",
                                   ![w].tree_imp = tree_importance(f_rng_factory, f_w[w].ith_tree)]
        /\ UNCHANGED <<f_in, f_pc, f_rng_factory, f_mutex, f_ith_tree_mut, f_chan, f_nrecv, f_imp>>
        /\ UNCHANGED <<tvars, bvars, ovars>>

\* tx.send(tree_imp).unwrap(): the channel is unbounded and rx is alive.
WSend ==
    \E w \in Workers :
        /\ f_w[w].pc = "send"
        /\ f_chan' = Append(f_chan, [ith_tree |-> f_w[w].ith_tree, tree_imp |-> f_w[w].tree_imp])
        /\ f_w' = [f_w EXCEPT ![w].pc = "lock", ![w].tree_imp = <<>>]
        /\ UNCHANGED <<f_in, f_pc, f_rng_factory, f_mutex, f_ith_tree_mut, f_nrecv, f_imp>>
        /\ UNCHANGED <<tvars, bvars, ovars>>

\* thread::scope returns when every spawned thread has ended, and panics
\* if one of them panicked.
FScopeEnd ==
    /\ f_pc = "scope"
    /\ \A w \in Workers : f_w[w].pc \in {"joined", "panicked"}
    /\ f_pc' = IF \E w \in Workers : f_w[w].pc = "panicked" THEN "panicked" ELSE "drain"
    /\ UNCHANGED <<f_in, f_rng_factory, f_w, f_mutex, f_ith_tree_mut, f_chan, f_nrecv, f_imp>>
    /\ UNCHANGED <<tvars, bvars, ovars>>

\* One round of for _ in 0..ntree: rx.recv().unwrap() blocks while the
\* channel is empty (tx is alive until the function returns).
FRecv ==
    /\ f_pc = "drain"
    /\ f_nrecv < f_in.ntree
    /\ f_chan # <<>>
    /\ f_imp' = merge_tree_imp(f_imp, Head(f_chan).tree_imp)
    /\ f_chan' = Tail(f_chan)
    /\ f_nrecv' = f_nrecv + 1
    /\ UNCHANGED <<f_in, f_pc, f_rng_factory, f_w, f_mutex, f_ith_tree_mut>>
    /\ UNCHANGED <<tvars, bvars, ovars>>

\* return imp, out of the parallel branch
FReturn ==
    /\ f_pc = "drain"
    /\ f_nrecv = f_in.ntree
    /\ f_pc' = "returned"
    /\ UNCHANGED <<f_in, f_rng_factory, f_w, f_mutex, f_ith_tree_mut, f_chan, f_nrecv, f_imp>>
    /\ UNCHANGED <<tvars, bvars, ovars>>

\* The sequential branch, on the calling thread, up to its return or panic.
FSequential ==
    /\ f_pc = "sequential"
    /\ LET r == sequential_branch(<<>>, f_rng_factory, f_in.ntree, f_in.bad, 0)
       IN  /\ f_imp' = r.imp
           /\ f_pc' = IF r.panic THEN "panicked" ELSE "returned"
    /\ UNCHANGED <<f_in, f_rng_factory, f_w, f_mutex, f_ith_tree_mut, f_chan, f_nrecv>>
    /\ UNCHANGED <<tvars, bvars, ovars>>

FNext ==
    FEnter \/ WLock \/ WTake \/ WCompute \/ WSend \/ FScopeEnd \/ FRecv \/ FReturn \/ FSequential

ForestSpec == FInit /\ [][FNext]_vars

(***************************************************************************)
(* The tree specification: one Tree over a three-column XDf, built on a bag  *)
(* mask and scored on the out-of-bag mask.                                 *)
(***************************************************************************)
Rows == 0..(NRow - 1)

ValOf(k) == IF k % 3 = 0 THEN "Red" ELSE IF k % 3 = 1 THEN "Green" ELSE "Blue"

\* The column that repeats the colour pattern p.
ColPat(p) == [i \in 1..NRow |-> ValOf(p[((i - 1) % Len(p)) + 1])]

\* Three-column frames: the last column halves a bag, each of the other
\* two tells the rows of one half apart.
TDfs ==
    { <<ColPat(<<1, 0, 0, 0, 0, 0>>), ColPat(<<0, 0, 0, 1, 1, 0>>), ColPat(<<0, 0, 2, 2, 0, 2>>)>>,
      <<ColPat(<<0, 1, 2, 0, 1, 2>>), ColPat(<<0, 0, 1, 1, 2, 2>>), ColPat(<<2, 2, 2, 0, 0, 0>>)>> }

\* The response that changes every d rows, starting at m.
YPat(m, d) == [i \in 1..NRow |-> (m + ((i - 1) \div d)) % 2 = 0]

TYs == {YPat(0, 1), YPat(0, 2)}

\* The sorted masks over the rows in S.
SetToMask(S) == Mask_new(SetToSeq(S))

\* The bags of four rows that leave out a run of neighbouring rows
\* (cyclically) that starts at an even row.
TBags == {Rows \ {(i + j) % NRow : j \in 0..(NRow - 5)} : i \in {r \in Rows : r % 2 = 0}}

NoCall == [permuted_col |-> None, preds |-> <<>>, panic |-> FALSE]

NoImp == [importance |-> <<>>, calls |-> <<>>, panic |-> FALSE]

NoArgs == [mtry |-> 0, shadow_vars |-> FALSE, max_tree_depth |-> None]

TInit ==
    /\ t_df \in {XDf_new(cols) : cols \in TDfs}
    /\ t_y \in TYs
    /\ \E S \in TBags :
          /\ t_bag = SetToMask(S)
          /\ t_oob = Mask_inverse(SetToMask(S), SetToSeq(Rows))
    /\ t_args = NoArgs
    /\ \E seed \in 0..MaxSeed :
          tr = Tree_new(0, RngFactory_new(seed, Some(get_ncol(t_df)), Some(1)))
    /\ t_phase = "new"
    /\ t_nbase = 0
    /\ t_last = NoCall
    /\ t_imp = NoImp
    \* the forest is idle
    /\ f_in = <<>> /\ f_pc = "idle" /\ f_rng_factory = <<>> /\ f_w = <<>> /\ f_mutex = None
    /\ f_ith_tree_mut = 0 /\ f_chan = <<>> /\ f_nrecv = 0 /\ f_imp = <<>>
    \* boruta is idle
    /\ b_in = <<>> /\ b_run = <<>> /\ b_alt = <<>>
    \* frames, streams and columns are idle
    /\ x_df = <<>> /\ x_prev = <<>> /\ x_call = <<>> /\ x_ops = 0
    /\ s_in = <<>> /\ s_out = <<>>
    /\ m_in = <<>> /\ m_out = <<>>
    /\ c_col = <<>> /\ c_y = <<>> /\ c_mask = <<>> /\ c_out = <<>>

\* tree.build_tree(df, y, mask, mtry, shadow_vars, max_tree_depth)
TBuild ==
    /\ t_phase = "new"
    /\ \E mtry \in {1, get_ncol(t_df)}, shadow_vars \in BOOLEAN,
          max_tree_depth \in {None} \cup {Some(d) : d \in 0..MaxDepthArg} :
          \* shadow probes are tried on trees of depth 0 and 1 only
          /\ shadow_vars => max_tree_depth \in {Some(0), Some(1)}
          /\ t_args' = [mtry |-> mtry, shadow_vars |-> shadow_vars,
                        max_tree_depth |-> max_tree_depth]
          /\ \E b \in build_tree(tr, t_df, t_y, t_bag, mtry, shadow_vars, max_tree_depth) :
                /\ tr' = b.t
                /\ t_phase' = IF b.panic THEN "panicked" ELSE "built"
    /\ UNCHANGED <<t_df, t_y, t_bag, t_oob, t_nbase, t_last, t_imp>>
    /\ UNCHANGED <<fvars, bvars, ovars>>

\* tree.predict(df, oob_mask, None, mask_ranks)
TPredictBase ==
    /\ t_phase = "built"
    /\ t_nbase < MaxBasePasses
    /\ \E r \in {predict(tr, t_df, t_oob, None, MaskRanks(Len(t_y), t_oob))} :
           /\ tr' = r.t
           /\ t_last' = [permuted_col |-> None, preds |-> r.preds, panic |-> r.panic]
           /\ t_phase' = IF r.panic THEN "panicked" ELSE "built"
    /\ t_nbase' = t_nbase + 1
    /\ t_imp' = NoImp
    /\ UNCHANGED <<t_df, t_y, t_bag, t_oob, t_args>>
    /\ UNCHANGED <<fvars, bvars, ovars>>

\* tree.predict(df, oob_mask, Some(col), mask_ranks)
TPredictPermuted ==
    /\ t_phase = "built"
    /\ \E col \in tr.split_cols :
          \E r \in {predict(tr, t_df, t_oob, Some(col), MaskRanks(Len(t_y), t_oob))} :
              /\ tr' = r.t
              /\ t_last' = [permuted_col |-> Some(col), preds |-> r.preds, panic |-> r.panic]
              /\ t_phase' = IF r.panic THEN "panicked" ELSE "built"
    /\ t_imp' = NoImp
    /\ UNCHANGED <<t_df, t_y, t_bag, t_oob, t_args, t_nbase>>
    /\ UNCHANGED <<fvars, bvars, ovars>>

\* tree.importance(df, y, oob_mask)
TImportance ==
    /\ t_phase = "built"
    /\ t_nbase < MaxBasePasses
    /\ \E order \in Orders(tr.split_cols) :
          \E r \in {importance(tr, t_df, t_y, t_oob, order)} :
              /\ tr' = r.t
              /\ t_imp' = [importance |-> r.importance, calls |-> r.calls, panic |-> r.panic]
              /\ t_phase' = IF r.panic THEN "panicked" ELSE "built"
    /\ t_nbase' = t_nbase + 1
    /\ t_last' = NoCall
    /\ UNCHANGED <<t_df, t_y, t_bag, t_oob, t_args>>
    /\ UNCHANGED <<fvars, bvars, ovars>>

TNext == TBuild \/ TPredictBase \/ TPredictPermuted \/ TImportance

TreeSpec == TInit /\ [][TNext]_vars

(***************************************************************************)
(* binom.rs                                                                *)
(***************************************************************************)
RECURSIVE Pow(_, _)
Pow(b, e) == IF e = 0 THEN 1 ELSE b * Pow(b, e - 1)

RECURSIVE Binomial(_, _)
Binomial(n, k) ==
    IF k = 0 \/ k = n THEN 1 ELSE Binomial(n - 1, k - 1) + Binomial(n - 1, k)

RECURSIVE CdfNum(_, _, _)
CdfNum(k, n, p) ==
    IF k < 0 THEN 0
    ELSE Binomial(n, k) * Pow(p[1], k) * Pow(p[2] - p[1], n - k) + CdfNum(k - 1, n, p)

\* P(X <= k) for X ~ Bin(n, p), p a rational: for k < n the regularised
\* incomplete beta function I_(1-p)(n - k, k + 1) is that probability.
binom_cdf(k, n, p) ==
    IF k >= n THEN <<1, 1>> ELSE <<CdfNum(k, n, p), Pow(p[2], n)>>

(***************************************************************************)
(* boruta.rs.  A run is the record of the locals of one execution of       *)
(* boruta; in is [df, pval_th, max_runs].  The forest is an oracle: the    *)
(* z-scores of an iteration are chosen among ZMaps.                         *)
(***************************************************************************)
\* The locals before the loop.
boruta_enter(in) ==
    [pc |-> "loop", iter |-> 0,
     hits_map |-> [idx \in Range(get_col_ids(in.df)) |-> 0],
     tentative |-> get_col_ids(in.df), confirmed |-> <<>>, rejected |-> <<>>,
     idxs |-> <<>>, cur_df |-> <<>>, rf_seed |-> 0, zscores |-> <<>>,
     max_shadow_zscore |-> 0, hits_0 |-> <<>>, forest_runs |-> 0]

\* iter <= max_runs in place of iter < max_runs
loop_condition_inclusive(in, run) ==
    run.iter <= in.max_runs /\ Len(run.tentative) > 0

\* while iter < max_runs && res.tentative.len() > 0
loop_condition(in, run) ==
    run.iter < in.max_runs /\ Len(run.tentative) > 0

\* From the loop head to the call of rf.zscore: iter, idxs, subset,
\* add_shadows and the seed of the forest.
iteration_frame(in, run) ==
    LET iter == run.iter + 1
        idxs == run.tentative \o run.confirmed
        sub == subset(in.df, idxs)
        cur == IF sub.panic THEN sub
               ELSE add_shadows(sub.df, RngFactory_new(iter + SHADOW_SEED, None, None))
    IN  [run EXCEPT !.pc = IF cur.panic THEN "panicked" ELSE "forest",
                    !.iter = iter, !.idxs = idxs, !.cur_df = cur.df,
                    !.rf_seed = iter + FOREST_SEED, !.hits_0 = run.hits_map]

\* &idxs_all_set - &idxs_attr_set
idxs_shadow_set(run) == Range(get_col_ids(run.cur_df)) \ Range(run.idxs)

\* zscores.get(idx).unwrap_or(&-1.) over the shadows, the largest by total_cmp
max_shadow(zscores, shadows) ==
    SetMax({IF idx \in DOMAIN zscores THEN zscores[idx] ELSE -1 : idx \in shadows})

\* The hit test with >= in place of >.
gains_hit_inclusive(zscores, idx, max_shadow_zscore) ==
    idx \in DOMAIN zscores /\ zscores[idx] >= max_shadow_zscore

\* zscores.get(idx).is_some() && zscores.get(idx).unwrap() > max_shadow_zscore
gains_hit(zscores, idx, max_shadow_zscore) ==
    idx \in DOMAIN zscores /\ zscores[idx] > max_shadow_zscore

\* From the return of rf.zscore to the end of the hits loop.  idxs holds no
\* id twice as long as no column is both confirmed and tentative.
score(run, zscores) ==
    LET max_shadow_zscore == max_shadow(zscores, idxs_shadow_set(run))
    IN  [run EXCEPT
            !.pc = "decide", !.zscores = zscores,
            !.max_shadow_zscore = max_shadow_zscore,
            !.forest_runs = @ + 1,
            !.hits_map = [idx \in DOMAIN @ |->
                @[idx] + Cardinality({k \in 1..Len(run.idxs) :
                                         /\ run.idxs[k] = idx
                                         /\ gains_hit(zscores, idx, max_shadow_zscore)})]]

\* pval_th / (res.tentative.len() as f64), and 1 - it
Alpha(in, run) == <<in.pval_th[1], in.pval_th[2] * Len(run.tentative)>>

OneMinusAlpha(in, run) ==
    <<in.pval_th[2] * Len(run.tentative) - in.pval_th[1], in.pval_th[2] * Len(run.tentative)>>

\* The two tests of the decision loop for one tentative column.
rejects(in, run, idx) ==
    RatLt(binom_cdf(run.hits_map[idx], run.iter, <<1, 2>>), Alpha(in, run))

confirms(in, run, idx) ==
    /\ run.hits_map[idx] > 0
    /\ RatLt(OneMinusAlpha(in, run), binom_cdf(run.hits_map[idx] - 1, run.iter, <<1, 2>>))

\* The decision loop from tentative column k on: two independent ifs.
RECURSIVE decision_loop(_, _, _)
decision_loop(in, run, k) ==
    IF k > Len(run.tentative) THEN run
    ELSE LET idx == run.tentative[k]
             r1 == IF rejects(in, run, idx)
                   THEN [run EXCEPT !.rejected = Append(@, idx)] ELSE run
             r2 == IF confirms(in, run, idx)
                   THEN [r1 EXCEPT !.confirmed = Append(@, idx)] ELSE r1
         IN  decision_loop(in, r2, k + 1)

\* A difference that leaves the confirmed columns in tentative.
idxs_tentative_less_rejected(run) == Range(run.tentative) \ Range(run.rejected)

\* What is left of tentative, as a set: the HashSet difference.
idxs_tentative(run) == (Range(run.tentative) \ Range(run.rejected)) \ Range(run.confirmed)

\* The update of tentative after the decision loop; order is the HashSet's
\* enumeration of idxs_tentative.  The locals of the iteration go out of
\* scope.
update_tentative(run, order) ==
    [run EXCEPT
        !.pc = "loop", !.tentative = order, !.idxs = <<>>, !.cur_df = <<>>,
        !.rf_seed = 0, !.zscores = <<>>, !.max_shadow_zscore = 0, !.hits_0 = <<>>]

\* The ends of an iteration that has its hits: the decision loop, then the
\* update of tentative for every enumeration of the HashSet.
decide(in, run) ==
    LET after == decision_loop(in, run, 1)
    IN  {update_tentative(after, order) : order \in Orders(idxs_tentative(after))}

\* The z-scores the oracle may answer for the frame of the run: a column
\* of tentative and confirmed has none or one of AttrZ; the first shadow
\* has none or one of ShadowZ, and so have, all alike, the other shadows.
AttrZ == {-1, 1}

ShadowZ == {-2, 0}

ZMaps(run) ==
    LET attrs == Range(run.idxs)
        shadows == idxs_shadow_set(run)
        first == [col_id |-> SetMin({idx.col_id : idx \in shadows}), shadow |-> FALSE]
        Restrict(f) == [idx \in {i \in DOMAIN f : f[i] # None} |-> f[idx][1]]
    IN  { Restrict([idx \in attrs \cup shadows |->
                       IF idx \in attrs THEN za[idx]
                       ELSE IF idx = first THEN z1 ELSE z2])
          : za \in [attrs -> {None} \cup {Some(z) : z \in AttrZ}],
            z1 \in {None} \cup {Some(z) : z \in ShadowZ},
            z2 \in {None} \cup {Some(z) : z \in ShadowZ} }

\* The frame of c columns: column k repeats the colours from colour k on.
BDf(c) == XDf_new([k \in 1..c |-> [i \in 1..NRow |-> ValOf(i + k)]])

PVals == {<<3, 10>>, <<9, 10>>}

BIns ==
    {[df |-> BDf(c), pval_th |-> p, max_runs |-> m]
        : c \in 0..MaxBCol, p \in PVals, m \in 0..MaxRuns}

(***************************************************************************)
(* The boruta specification: one execution.                                *)
(***************************************************************************)
BInit ==
    /\ b_in \in BIns
    /\ b_run = boruta_enter(b_in)
    /\ b_alt = <<>>
    \* the tree is idle
    /\ t_df = <<>> /\ t_y = <<>> /\ t_bag = <<>> /\ t_oob = <<>> /\ t_args = <<>>
    /\ tr = <<>> /\ t_phase = "idle" /\ t_nbase = 0 /\ t_last = <<>> /\ t_imp = <<>>
    \* the forest is idle
    /\ f_in = <<>> /\ f_pc = "idle" /\ f_rng_factory = <<>> /\ f_w = <<>> /\ f_mutex = None
    /\ f_ith_tree_mut = 0 /\ f_chan = <<>> /\ f_nrecv = 0 /\ f_imp = <<>>
    \* frames, streams and columns are idle
    /\ x_df = <<>> /\ x_prev = <<>> /\ x_call = <<>> /\ x_ops = 0
    /\ s_in = <<>> /\ s_out = <<>>
    /\ m_in = <<>> /\ m_out = <<>>
    /\ c_col = <<>> /\ c_y = <<>> /\ c_mask = <<>> /\ c_out = <<>>

\* One iteration up to the hits: lines 48 to 73.
BForest ==
    /\ b_run.pc = "loop"
    /\ loop_condition(b_in, b_run)
    /\ LET fr == iteration_frame(b_in, b_run)
       IN  IF fr.pc = "panicked" THEN b_run' = fr
           ELSE \E zscores \in ZMaps(fr) : b_run' = score(fr, zscores)
    /\ UNCHANGED <<b_in, b_alt, tvars, fvars, ovars>>

\* The rest of the iteration: lines 75 to 97.
BDecide ==
    /\ b_run.pc = "decide"
    /\ b_run' \in decide(b_in, b_run)
    /\ UNCHANGED <<b_in, b_alt, tvars, fvars, ovars>>

\* return res
BReturn ==
    /\ b_run.pc = "loop"
    /\ ~loop_condition(b_in, b_run)
    /\ b_run' = [b_run EXCEPT !.pc = "returned"]
    /\ UNCHANGED <<b_in, b_alt, tvars, fvars, ovars>>

BNext == BForest \/ BDecide \/ BReturn

BorutaSpec == BInit /\ [][BNext]_vars

(***************************************************************************)
(* Two executions of boruta on the same arguments, iteration by iteration. *)
(* The forest is a function of its seed and arguments: with equal seeds    *)
(* and frames the two executions get equal z-scores.                       *)
(***************************************************************************)
PInit ==
    /\ b_in \in BIns
    /\ b_run = boruta_enter(b_in)
    /\ b_alt = boruta_enter(b_in)
    \* the tree is idle
    /\ t_df = <<>> /\ t_y = <<>> /\ t_bag = <<>> /\ t_oob = <<>> /\ t_args = <<>>
    /\ tr = <<>> /\ t_phase = "idle" /\ t_nbase = 0 /\ t_last = <<>> /\ t_imp = <<>>
    \* the forest is idle
    /\ f_in = <<>> /\ f_pc = "idle" /\ f_rng_factory = <<>> /\ f_w = <<>> /\ f_mutex = None
    /\ f_ith_tree_mut = 0 /\ f_chan = <<>> /\ f_nrecv = 0 /\ f_imp = <<>>
    \* frames, streams and columns are idle
    /\ x_df = <<>> /\ x_prev = <<>> /\ x_call = <<>> /\ x_ops = 0
    /\ s_in = <<>> /\ s_out = <<>>
    /\ m_in = <<>> /\ m_out = <<>>
    /\ c_col = <<>> /\ c_y = <<>> /\ c_mask = <<>> /\ c_out = <<>>

\* The execution at the loop head: into the iteration, or out of the loop.
PFrame(run) ==
    IF run.pc # "loop" THEN run
    ELSE IF loop_condition(b_in, run) THEN iteration_frame(b_in, run)
    ELSE [run EXCEPT !.pc = "returned"]

\* The ends of the iteration begun with frame fr when the forest answers
\* zscores: one for each enumeration of the HashSet.
Outcomes(fr, zscores) == decide(b_in, score(fr, zscores))

AllOutcomes(fr) ==
    IF fr.pc = "forest" THEN UNION {Outcomes(fr, zscores) : zscores \in ZMaps(fr)}
    ELSE {fr}

\* One iteration of the executions that are in the loop: lines 48 to 97.
PIter ==
    /\ \E run \in {b_run, b_alt} : run.pc = "loop" /\ loop_condition(b_in, run)
    /\ LET fr == PFrame(b_run)
           fa == PFrame(b_alt)
           all_r == AllOutcomes(fr)
           all_a == AllOutcomes(fa)
       IN  IF /\ fr.pc = "forest" /\ fa.pc = "forest"
              /\ fr.rf_seed = fa.rf_seed /\ fr.cur_df = fa.cur_df
           THEN \E zscores \in ZMaps(fr) :
                   /\ b_run' \in Outcomes(fr, zscores)
                   /\ b_alt' \in Outcomes(fa, zscores)
           ELSE /\ b_run' \in all_r
                /\ b_alt' \in all_a
    /\ UNCHANGED <<b_in, tvars, fvars, ovars>>

\* return res, in the executions that have not returned
PReturn ==
    /\ \E run \in {b_run, b_alt} : run.pc = "loop"
    /\ \A run \in {b_run, b_alt} : run.pc = "loop" => ~loop_condition(b_in, run)
    /\ b_run' = PFrame(b_run)
    /\ b_alt' = PFrame(b_alt)
    /\ UNCHANGED <<b_in, tvars, fvars, ovars>>

PNext == PIter \/ PReturn

BorutaPairSpec == PInit /\ [][PNext]_vars

(***************************************************************************)
(* Properties of predict and importance (TreeSpec).                        *)
(***************************************************************************)
\* The reference traversal: every Split is re-split from the mask it is
\* handed, on permuted_vec at the splits on column c and on the frame's own
\* column elsewhere; no cache is read.  c = None permutes nothing.
RECURSIVE ScratchPredict(_, _, _, _, _, _, _, _)
ScratchPredict(t, df, mask, c, permuted_vec, node_id, preds, mask_ranks) ==
    LET node == NodeOf(t, node_id)
    IN  IF node.kind = "Lf" THEN WritePreds(preds, mask, mask_ranks, node.class)
        ELSE LET on_c == c # None /\ c[1] = get_col_id(node.split_index)
                 masks == make_split(df, node.split_index, mask,
                                     IF on_c THEN Some(permuted_vec) ELSE None)
             IN  ScratchPredict(t, df, masks[2], c, permuted_vec, Some(node.r_child_idx),
                    ScratchPredict(t, df, masks[1], c, permuted_vec, Some(node.l_child_idx),
                                   preds, mask_ranks),
                    mask_ranks)

\* The from-scratch predictions of the tree in tr on the out-of-bag mask.
Scratch(c) ==
    ScratchPredict(tr, t_df, t_oob, c,
                   IF c = None THEN <<>>
                   ELSE permute_index(t_df, c[1], tr.rng_factory, t_oob, tr.ith_tree),
                   None, [k \in 1..Len(t_oob) |-> None], MaskRanks(Len(t_y), t_oob))

\* The Split nodes whose cached predictions a permuted predict replays when
\* it reaches node_id unaltered.
RECURSIVE Replayed(_, _, _)
Replayed(t, c, node_id) ==
    LET node == NodeOf(t, node_id)
        Under(ch) == IF _preds_read_cache(t, ch, c, <<>>).hit THEN {ch}
                     ELSE Replayed(t, c, Some(ch))
    IN  IF node.kind = "Lf" \/ get_col_id(node.split_index) = c THEN {}
        ELSE Under(node.l_child_idx) \cup Under(node.r_child_idx)

\* C1: once an unpermuted predict on the out-of-bag mask has filled the
\* caches, a predict with column c permuted does not panic and returns,
\* position by position, the predictions of the from-scratch traversal that
\* uses the permuted copy of c at the splits on c and no cache.
C1_CachedEqualsScratch ==
    (t_nbase >= 1 /\ t_last.permuted_col # None) =>
        /\ ~t_last.panic
        /\ t_last.preds = Scratch(t_last.permuted_col)

\* C1 witness: a permuted predict after the baseline that replayed a Split
\* subtree holding out-of-bag rows, and whose result differs from the
\* unpermuted predictions.
C1_Witness ==
    /\ t_nbase >= 1
    /\ t_last.permuted_col # None
    /\ ~t_last.panic
    /\ \E n \in Replayed(tr, t_last.permuted_col[1], None) :
          At(tr.preds_cache_range, n)[1] < At(tr.preds_cache_range, n)[2]
    /\ t_last.preds # Scratch(None)

\* The column ids of the Split nodes of the arena.
SplitNodeCols(t) ==
    {get_col_id(t.tree[k].split_index) : k \in {j \in 1..Len(t.tree) : t.tree[j].kind = "Sp"}}

\* The number of out-of-bag rows that preds gets wrong.
OobErr(preds) == Cardinality({k \in 1..Len(t_oob) : At(t_y, t_oob[k]) # preds[k][1]})

\* C10: importance does not panic on a built tree; the keys of its map are
\* exactly split_cols, which are exactly the columns of the Split nodes; the
\* value of c is the errors with c permuted minus the errors of the unpermuted
\* prediction; and the predict calls are one unpermuted call, made first,
\* followed by one permuted call for each column.
C10_ImportanceMap ==
    t_imp.calls # <<>> =>
        /\ ~t_imp.panic
        /\ DOMAIN t_imp.importance = tr.split_cols
        /\ tr.split_cols = SplitNodeCols(tr)
        /\ \A c \in tr.split_cols :
              t_imp.importance[c] = OobErr(Scratch(Some(c))) - OobErr(Scratch(None))
        /\ t_imp.calls[1] = None
        /\ Len(t_imp.calls) = 1 + Cardinality(tr.split_cols)
        /\ {t_imp.calls[k][1] : k \in 2..Len(t_imp.calls)} = tr.split_cols

\* C10 witness: importance returned a map over two or more columns with a
\* negative and a zero entry.
C10_Witness ==
    /\ t_imp.calls # <<>>
    /\ ~t_imp.panic
    /\ Cardinality(tr.split_cols) >= 2
    /\ \E c, d \in tr.split_cols : t_imp.importance[c] < 0 /\ t_imp.importance[d] = 0

(***************************************************************************)
(* Properties of importance_per_tree (ForestSpec)                          *)
(***************************************************************************)
\* How often v occurs in the sequence s.
Occurrences(s, v) == Cardinality({k \in 1..Len(s) : s[k] = v})

SameMultiset(s, t) ==
    /\ Len(s) = Len(t)
    /\ \A v \in Range(s) \cup Range(t) : Occurrences(s, v) = Occurrences(t, v)

\* What the sequential branch returns on the arguments of the call.
SequentialImp == sequential_branch(<<>>, f_rng_factory, f_in.ntree, f_in.bad, 0).imp

C3_ReturnsAndDrains ==
    (f_in.multithread # None /\ f_in.bad = {}) =>
        /\ f_pc = "returned" \/ ENABLED FNext
        /\ f_pc = "returned" => (f_nrecv = f_in.ntree /\ f_chan = <<>>)

\* C4: the mutex is held only by a worker between lock and drop, never by
\* one that computes, sends, has panicked or has ended; once a worker has
\* panicked the call is in the scope or has panicked itself, and a call
\* that returned a map had no tree that panics.
C4_PanicPropagates ==
    /\ \A w \in 1..MaxThreads : f_mutex = Some(w) => f_w[w].pc = "locked"
    /\ (\E w \in 1..MaxThreads : f_w[w].pc = "panicked") => f_pc \in {"scope", "panicked"}
    /\ f_pc = "returned" => f_in.bad = {}
    /\ f_pc = "panicked" => f_nrecv = 0

\* C4 witness: the call has panicked out of the scope after one worker
\* panicked and another one ended by itself, with a message on the channel.
C4_Witness ==
    /\ f_pc = "panicked"
    /\ f_chan # <<>>
    /\ \E w \in 1..MaxThreads : f_w[w].pc = "panicked"
    /\ \E w \in 1..MaxThreads : f_w[w].pc = "joined"

(***************************************************************************)
(* Properties of boruta (BorutaSpec, BorutaPairSpec)                       *)
(***************************************************************************)
NoDuplicate(s) == \A j, k \in 1..Len(s) : s[j] = s[k] => j = k

\* C5: between iterations and on return, tentative, confirmed and rejected
\* are pairwise disjoint, hold no id twice, and together hold exactly the
\* split-ids of the input frame.
C5_ListsPartition ==
    b_run.pc \in {"loop", "returned"} =>
        /\ Range(b_run.tentative) \cap Range(b_run.confirmed) = {}
        /\ Range(b_run.tentative) \cap Range(b_run.rejected) = {}
        /\ Range(b_run.confirmed) \cap Range(b_run.rejected) = {}
        /\ NoDuplicate(b_run.tentative)
        /\ NoDuplicate(b_run.confirmed)
        /\ NoDuplicate(b_run.rejected)
        /\ Range(b_run.tentative) \cup Range(b_run.confirmed) \cup Range(b_run.rejected)
              = Range(get_col_ids(b_in.df))

\* BinCDF(h; iter, 0.5) < pval_threshold / |tentative|
C6_RejectTest(idx) ==
    RatLt(binom_cdf(b_run.hits_map[idx], b_run.iter, <<1, 2>>),
          <<b_in.pval_th[1], b_in.pval_th[2] * Len(b_run.tentative)>>)

\* h > 0 and BinCDF(h-1; iter, 0.5) > 1 - pval_threshold / |tentative|
C6_ConfirmTest(idx) ==
    /\ b_run.hits_map[idx] > 0
    /\ RatLt(<<b_in.pval_th[2] * Len(b_run.tentative) - b_in.pval_th[1],
               b_in.pval_th[2] * Len(b_run.tentative)>>,
             binom_cdf(b_run.hits_map[idx] - 1, b_run.iter, <<1, 2>>))

\* C6: the decision loop moves a tentative column to rejected exactly when
\* the rejection test holds, else to confirmed exactly when the
\* confirmation test holds, and never to both.
C6_DecisionRule ==
    b_run.pc = "decide" =>
        LET after == decision_loop(b_in, b_run, 1)
            new_rejected == Range(after.rejected) \ Range(b_run.rejected)
            new_confirmed == Range(after.confirmed) \ Range(b_run.confirmed)
        IN  \A idx \in Range(b_run.tentative) :
               /\ idx \in new_rejected <=> C6_RejectTest(idx)
               /\ idx \in new_confirmed <=> (~C6_RejectTest(idx) /\ C6_ConfirmTest(idx))
               /\ ~(idx \in new_rejected /\ idx \in new_confirmed)

\* The shadow split-ids of the frame of the iteration, and those with a
\* z-score.
C7_Shadows == Range(get_col_ids(b_run.cur_df)) \ Range(b_run.idxs)

C7_Scored == C7_Shadows \cap DOMAIN b_run.zscores

\* A column of tentative and confirmed gains one hit if its z-score is
\* strictly greater than max_shadow_zscore, and none otherwise; the other
\* counts stay.
C7_Hits ==
    \A idx \in DOMAIN b_run.hits_map :
        b_run.hits_map[idx] = b_run.hits_0[idx] +
            (IF /\ idx \in Range(b_run.idxs)
                /\ idx \in DOMAIN b_run.zscores
                /\ b_run.zscores[idx] > b_run.max_shadow_zscore
             THEN 1 ELSE 0)

\* C7, as stated: max_shadow_zscore is the largest z-score of a scored
\* shadow, and -1 only when no shadow is scored.
C7_MaxOverScored ==
    b_run.pc = "decide" =>
        /\ IF C7_Scored = {} THEN b_run.max_shadow_zscore = -1
           ELSE b_run.max_shadow_zscore = SetMax({b_run.zscores[idx] : idx \in C7_Scored})
        /\ C7_Hits

\* C7, amended: max_shadow_zscore is the largest, over all the shadows of
\* the frame, of the shadow's z-score, a shadow without z-score counting
\* for -1.
C7_MaxWithDefault ==
    b_run.pc = "decide" =>
        /\ C7_Shadows # {}
        /\ \A idx \in C7_Scored : b_run.zscores[idx] <= b_run.max_shadow_zscore
        /\ C7_Scored # C7_Shadows => -1 <= b_run.max_shadow_zscore
        /\ \/ \E idx \in C7_Scored : b_run.zscores[idx] = b_run.max_shadow_zscore
           \/ C7_Scored # C7_Shadows /\ b_run.max_shadow_zscore = -1
        /\ C7_Hits

\* C7 witness: a shadow is scored below -1 and another is not scored; one
\* column gains a hit and another, scored -1, gains none.
C7_Witness ==
    /\ b_run.pc = "decide"
    /\ C7_Scored # {}
    /\ C7_Scored # C7_Shadows
    /\ b_run.max_shadow_zscore = -1
    /\ \E idx \in Range(b_run.idxs) : b_run.hits_map[idx] = b_run.hits_0[idx] + 1
    /\ \E idx \in Range(b_run.idxs) :
          /\ idx \in DOMAIN b_run.zscores
          /\ b_run.zscores[idx] = -1
          /\ b_run.hits_map[idx] = b_run.hits_0[idx]

\* C8: never more than max_runs iterations, one forest per iteration and
\* none of them panics; an iteration is under way only with a non-empty
\* tentative; on return tentative is empty or max_runs iterations were
\* made; with max_runs = 0 or no column no forest is run and every column
\* is still tentative.
C8_Terminates ==
    /\ b_run.pc \in {"loop", "decide", "returned"}
    /\ b_run.iter <= b_in.max_runs
    /\ b_run.forest_runs = b_run.iter
    /\ b_run.pc = "decide" => (b_run.iter >= 1 /\ Len(b_run.tentative) > 0)
    /\ b_run.pc = "returned" =>
          /\ Len(b_run.tentative) = 0 \/ b_run.iter = b_in.max_runs
          /\ (b_in.max_runs = 0 \/ get_ncol(b_in.df) = 0) =>
                /\ b_run.forest_runs = 0
                /\ b_run.tentative = get_col_ids(b_in.df)
                /\ b_run.confirmed = <<>>
                /\ b_run.rejected = <<>>

\* C8 witness: the run returned after max_runs >= 2 iterations with a column
\* still tentative.
C8_Witness ==
    /\ b_run.pc = "returned"
    /\ b_in.max_runs >= 2
    /\ b_run.iter = b_in.max_runs
    /\ b_run.forest_runs = b_in.max_runs
    /\ Len(b_run.tentative) > 0

\* C9: two executions on the same arguments that begin the same iteration
\* hand the same frame, shadows included, to the forest, and when both have
\* returned they return the same confirmed and rejected sets.
C9_SameResult ==
    /\ ( /\ b_run.pc = "loop" /\ b_alt.pc = "loop"
         /\ b_run.iter = b_alt.iter
         /\ loop_condition(b_in, b_run) /\ loop_condition(b_in, b_alt)
         /\ Range(b_run.tentative) = Range(b_alt.tentative)
         /\ b_run.confirmed = b_alt.confirmed )
       => iteration_frame(b_in, b_run).cur_df = iteration_frame(b_in, b_alt).cur_df
    /\ (b_run.pc = "returned" /\ b_alt.pc = "returned")
       => /\ Range(b_run.confirmed) = Range(b_alt.confirmed)
          /\ Range(b_run.rejected) = Range(b_alt.rejected)

(***************************************************************************)
(* The node arena after build_tree                                         *)
(***************************************************************************)
\* The Splits of the arena that name node u as a child, once per side.
ParentLinks(nodes, u) ==
    {<<v, side>> \in (0..(Len(nodes) - 1)) \X {"l", "r"} :
        /\ At(nodes, v).kind = "Sp"
        /\ u = (IF side = "l" THEN At(nodes, v).l_child_idx ELSE At(nodes, v).r_child_idx)}

\* The nodes reached from node v by following child handles.
RECURSIVE Reached(_, _, _)
Reached(nodes, v, fuel) ==
    IF fuel = 0 \/ At(nodes, v).kind # "Sp" THEN {v}
    ELSE {v} \cup Reached(nodes, At(nodes, v).l_child_idx, fuel - 1)
             \cup Reached(nodes, At(nodes, v).r_child_idx, fuel - 1)

\* C11: after build_tree the arena is in post-order: both children of every
\* Split lie before it, every node but the last is the child of exactly one
\* Split, and the last node is the root, the node predict starts from, from
\* which every node is reached.
C11_PostOrder ==
    t_phase = "built" =>
        /\ Len(tr.tree) >= 1
        /\ \A v \in 0..(Len(tr.tree) - 1) :
              /\ At(tr.tree, v).kind = "Sp" =>
                    /\ At(tr.tree, v).l_child_idx \in 0..(v - 1)
                    /\ At(tr.tree, v).r_child_idx \in 0..(v - 1)
              /\ v < Len(tr.tree) - 1 => Cardinality(ParentLinks(tr.tree, v)) = 1
        /\ ParentLinks(tr.tree, Len(tr.tree) - 1) = {}
        /\ NodeOf(tr, None) = At(tr.tree, Len(tr.tree) - 1)
        /\ Reached(tr.tree, Len(tr.tree) - 1, Len(tr.tree)) = 0..(Len(tr.tree) - 1)

\* C11 happens: a built arena with a Split inside the right subtree of the root.
C11_Witness ==
    /\ t_phase = "built"
    /\ Len(tr.tree) >= 5
    /\ At(tr.tree, Len(tr.tree) - 1).kind = "Sp"
    /\ At(tr.tree, At(tr.tree, Len(tr.tree) - 1).r_child_idx).kind = "Sp"

(***************************************************************************)
(* The frame specification: XDf::new, then subset and add_shadows calls.   *)
(***************************************************************************)
\* Column j of a new frame: the base-3 digits of j + 1, one colour per row.
XCol(j) == [i \in 1..XRow |-> ValOf((j + 1) \div Pow(3, i - 1))]

XFrames == {XDf_new([k \in 1..n |-> XCol(k - 1)]) : n \in 1..MaxXCol}

\* Mask::new((0..nrow).collect())
FullMask == Mask_new([k \in 1..XRow |-> k - 1])

Reverse(v) == [k \in 1..Len(v) |-> v[Len(v) + 1 - k]]

\* The arguments of subset: short lists of split-ids of the frame, repeats
\* included, the whole id list, and the whole id list backwards.
SubsetArgs(df) ==
    UNION {[1..l -> Range(get_col_ids(df))] : l \in 0..MaxSubsetLen}
        \cup {get_col_ids(df), Reverse(get_col_ids(df))}

NewCall == [op |-> "new", split_ids |-> <<>>, rng_factory |-> <<>>, panic |-> FALSE]

XInit ==
    /\ x_df \in XFrames
    /\ x_prev = <<>>
    /\ x_call = NewCall
    /\ x_ops = 0
    /\ s_in = <<>> /\ s_out = <<>>
    /\ m_in = <<>> /\ m_out = <<>>
    /\ c_col = <<>> /\ c_y = <<>> /\ c_mask = <<>> /\ c_out = <<>>
    /\ t_df = <<>> /\ t_y = <<>> /\ t_bag = <<>> /\ t_oob = <<>> /\ t_args = <<>>
    /\ tr = <<>> /\ t_phase = "idle" /\ t_nbase = 0 /\ t_last = <<>> /\ t_imp = <<>>
    /\ f_in = <<>> /\ f_pc = "idle" /\ f_rng_factory = <<>> /\ f_w = <<>> /\ f_mutex = None
    /\ f_ith_tree_mut = 0 /\ f_chan = <<>> /\ f_nrecv = 0 /\ f_imp = <<>>
    /\ b_in = <<>> /\ b_run = <<>> /\ b_alt = <<>>

\* let next = df.subset(&split_ids): x_prev is the source after the call
XSubset ==
    /\ x_ops < MaxXOps
    /\ ~x_call.panic
    /\ \E split_ids \in SubsetArgs(x_df) :
          \E r \in {subset(x_df, split_ids)} :
              /\ x_df' = r.df
              /\ x_call' = [op |-> "subset", split_ids |-> split_ids,
                            rng_factory |-> <<>>, panic |-> r.panic]
    /\ x_prev' = x_df
    /\ x_ops' = x_ops + 1
    /\ UNCHANGED <<tvars, fvars, bvars, svars, cvars, mvars>>

\* df.add_shadows(rng_factory): x_prev is the frame before the call
XAddShadows ==
    /\ x_ops < MaxXOps
    /\ ~x_call.panic
    /\ \E seed \in 0..MaxSeed :
          \E r \in {add_shadows(x_df, RngFactory_new(seed, None, None))} :
              /\ x_df' = r.df
              /\ x_call' = [op |-> "add_shadows", split_ids |-> <<>>,
                            rng_factory |-> RngFactory_new(seed, None, None),
                            panic |-> r.panic]
    /\ x_prev' = x_df
    /\ x_ops' = x_ops + 1
    /\ UNCHANGED <<tvars, fvars, bvars, svars, cvars, mvars>>

XNext == XSubset \/ XAddShadows

FrameSpec == XInit /\ [][XNext]_vars

\* The split-ids of the columns of df.
PresentIds(df) == Range(df.idx_to_splitid_map)

\* A split on column id with pivot p, as the tree passes it to make_split.
SplitOn(id, p) == [col_id |-> id, pivot |-> p, shadow |-> FALSE]

\* The id resolves in make_split and permute_index of a and b to the same
\* column contents.
SameResolution(a, b, id) ==
    /\ \A p \in ThreeValPivot :
          make_split(a, SplitOn(id, p), FullMask, None)
              = make_split(b, SplitOn(id, p), FullMask, None)
    /\ permute_index(a, [col_id |-> id, shadow |-> FALSE],
                     RngFactory_new(0, Some(1), Some(1)), FullMask, 0)
          = permute_index(b, [col_id |-> id, shadow |-> FALSE],
                          RngFactory_new(0, Some(1), Some(1)), FullMask, 0)
    /\ get_col(a, splitid_to_idx(a, id)) = get_col(b, splitid_to_idx(b, id))

\* Every split-id of the frame that its source frame also had resolves to
\* the contents it named there.
ResolutionKept ==
    x_call.op # "new" =>
        \A id \in PresentIds(x_df) \cap PresentIds(x_prev) : SameResolution(x_df, x_prev, id)

\* C12 as stated: in every frame made by XDf::new, subset and add_shadows
\* splitid_to_idx_map[idx_to_splitid_map[i]] = i for every physical index i,
\* and every split-id resolves to the contents it named in the source frame.
C12_InverseMaps ==
    ~x_call.panic =>
        /\ \A i \in 0..(get_ncol(x_df) - 1) :
              splitid_to_idx(x_df, idx_to_splitid(x_df, i)) = i
        /\ ResolutionKept

\* C12 amended: splitid_to_idx_map sends the split-id of column i to the last
\* column that carries this split-id, which is i itself when the split-ids of
\* the frame are pairwise distinct; every split-id resolves to the contents
\* it named in the source frame.
C12_LastIndexWins ==
    ~x_call.panic =>
        /\ \A i \in 0..(get_ncol(x_df) - 1) :
              splitid_to_idx(x_df, idx_to_splitid(x_df, i))
                  = SetMax({j \in 0..(get_ncol(x_df) - 1) :
                               idx_to_splitid(x_df, j) = idx_to_splitid(x_df, i)})
        /\ NoDuplicate(x_df.idx_to_splitid_map) =>
              \A i \in 0..(get_ncol(x_df) - 1) :
                  splitid_to_idx(x_df, idx_to_splitid(x_df, i)) = i
        /\ Len(x_df.idx_to_splitid_map) = get_ncol(x_df)
        /\ ResolutionKept

\* C12 happens: a reordering subset of a frame with shadows, itself made from
\* a subset, all of pairwise distinct split-ids.
C12_Witness ==
    /\ x_ops = 3
    /\ x_call.op = "subset"
    /\ ~x_call.panic
    /\ get_ncol(x_df) >= 2
    /\ NoDuplicate(x_df.idx_to_splitid_map)
    /\ idx_to_splitid(x_df, 0) > idx_to_splitid(x_df, 1)
    /\ get_ncol(x_prev) > MaxXCol
    /\ idx_to_splitid(x_prev, 0) > idx_to_splitid(x_prev, 1)

(***************************************************************************)
(* add_shadows                                                             *)
(***************************************************************************)
\* The number of shadows the documentation lists for a frame of n columns.
ListedShadows(n) ==
    CASE n = 1 -> 8
      [] n = 2 -> 8
      [] n = 3 -> 6
      [] n = 4 -> 8
      [] OTHER -> n

\* The last call was add_shadows on a frame with at least one column.
Shadowed == x_call.op = "add_shadows" /\ ~x_call.panic /\ get_ncol(x_prev) >= 1

\* The split-ids of the columns that add_shadows appended.
ShadowIds == {idx_to_splitid(x_df, i) : i \in get_ncol(x_prev)..(get_ncol(x_df) - 1)}

\* What add_shadows does to the columns and ids whatever the frame: the
\* listed number of shadows is appended, the existing columns and split-ids
\* stay, shadow i gets the id max_existing_splitid + 1 + i, which is above
\* every earlier id.
ShadowsAppended ==
    /\ get_ncol(x_df) = get_ncol(x_prev) + ListedShadows(get_ncol(x_prev))
    /\ Len(x_df.idx_to_splitid_map) = get_ncol(x_df)
    /\ \A i \in 0..(get_ncol(x_prev) - 1) :
          /\ get_col(x_df, i) = get_col(x_prev, i)
          /\ idx_to_splitid(x_df, i) = idx_to_splitid(x_prev, i)
    /\ \A i \in 0..(ListedShadows(get_ncol(x_prev)) - 1) :
          idx_to_splitid(x_df, get_ncol(x_prev) + i) = SetMax(PresentIds(x_prev)) + 1 + i
    /\ \A s \in ShadowIds : \A id \in PresentIds(x_prev) : s > id

\* C13 as stated: add_shadows on a frame of n >= 1 columns appends the listed
\* number of shadows, keeps the existing columns and split-ids, numbers the
\* shadows from max_existing_splitid + 1, and afterwards all split-ids of the
\* frame are pairwise distinct and every shadow id is above every earlier id.
C13_AllIdsDistinct ==
    Shadowed => ShadowsAppended /\ NoDuplicate(x_df.idx_to_splitid_map)

\* C13 amended: as C13, but the split-ids are pairwise distinct afterwards
\* when they were before the call; the shadow ids are always pairwise
\* distinct and new.
C13_ShadowIdsFresh ==
    Shadowed =>
        /\ ShadowsAppended
        /\ Cardinality(ShadowIds) = ListedShadows(get_ncol(x_prev))
        /\ ShadowIds \cap PresentIds(x_prev) = {}
        /\ NoDuplicate(x_prev.idx_to_splitid_map) => NoDuplicate(x_df.idx_to_splitid_map)

\* C13 happens: shadows added to a frame of fewer than five columns, of
\* pairwise distinct split-ids that are not 0..n-1.
C13_Witness ==
    /\ Shadowed
    /\ get_ncol(x_prev) < MIN_SHADOWS
    /\ NoDuplicate(x_prev.idx_to_splitid_map)
    /\ SetMax(PresentIds(x_prev)) > get_ncol(x_prev)
    /\ Len(x_prev.splitid_to_idx_map) > SetMax(PresentIds(x_prev)) + ListedShadows(get_ncol(x_prev)) + 1

\* Shadow i of the last add_shadows call is column src of frame df, permuted
\* over all rows with the stream rng_factory.shadow(i).
ShadowIsPermuted(i, df, src) ==
    get_col(x_df, get_ncol(x_prev) + i)
        = permute(get_col(df, src), new_rng_shadow(x_call.rng_factory, i), FullMask)

\* C14: for every i below num_shadow, shadow i is the column that was at
\* physical index i mod n before the call (n columns before the call),
\* permuted over all rows with the stream rng_factory.shadow(i), also for
\* n < 5 where i goes past n.
C14_ShadowOfOriginal ==
    Shadowed =>
        \A i \in 0..(get_ncol(x_df) - get_ncol(x_prev) - 1) :
            ShadowIsPermuted(i, x_prev, i % get_ncol(x_prev))

\* What the loop does: the index is taken modulo the grown length n + i, so
\* shadow i permutes column i of the frame as it grows: the original column
\* i for i < n, and shadow i - n for i >= n.
ShadowOfGrownFrame ==
    Shadowed =>
        \A i \in 0..(get_ncol(x_df) - get_ncol(x_prev) - 1) :
            /\ ShadowIsPermuted(i, x_df, i)
            /\ i < get_ncol(x_prev) => ShadowIsPermuted(i, x_prev, i % get_ncol(x_prev))

(***************************************************************************)
(* subset                                                                  *)
(***************************************************************************)
\* res is what subset(split_ids) has to return on the source src: one column
\* per entry, the k-th being the column split_ids[k] names in src, under the
\* split-ids of split_ids in their order.
IsSubsetOf(res, src, split_ids) ==
    /\ get_ncol(res) = Len(split_ids)
    /\ \A k \in 1..Len(split_ids) :
          /\ get_col(res, k - 1) = get_col(src, splitid_to_idx(src, split_ids[k].col_id))
          /\ \E i \in 0..(get_ncol(src) - 1) :
                /\ idx_to_splitid(src, i) = split_ids[k].col_id
                /\ get_col(res, k - 1) = get_col(src, i)
    /\ get_col_ids(res) = split_ids

\* C15: subset(split_ids) returns len(split_ids) columns, the k-th being the
\* column split_ids[k] named in the source, get_col_ids() of the result is
\* split_ids in the given order, so that subset(get_col_ids()) has the
\* get_col_ids() of its source, and the source is as it was before the call.
C15_SubsetRoundTrip ==
    [][x_call'.op = "subset" /\ x_ops' = x_ops + 1 =>
          /\ ~x_call'.panic
          /\ IsSubsetOf(x_df', x_df, x_call'.split_ids)
          /\ x_call'.split_ids = get_col_ids(x_df) =>
                /\ get_col_ids(x_df') = get_col_ids(x_df)
                /\ x_df'.data = x_df.data
          /\ get_col_ids(subset(x_df, get_col_ids(x_df)).df) = get_col_ids(x_df)
          /\ x_prev' = x_df]_vars

\* C15 happens: the whole id list of a reordered frame of at least three
\* columns went through subset.
C15_Witness ==
    /\ x_call.op = "subset"
    /\ ~x_call.panic
    /\ get_ncol(x_prev) >= 3
    /\ x_call.split_ids = get_col_ids(x_prev)
    /\ idx_to_splitid(x_prev, 0) > idx_to_splitid(x_prev, 1)
    /\ get_col_ids(x_df) = get_col_ids(x_prev)

(***************************************************************************)
(* The stream specification: one RngFactory and the streams asked of it.   *)
(***************************************************************************)
\* A stream as the factory hands it out: its kind and arguments, the
\* generator, and whether Rng::new panicked on its increment.
Stream(kind, ith_tree, col_id, rng) ==
    [kind |-> kind, ith_tree |-> ith_tree, col_id |-> col_id, rng |-> rng,
     panic |-> Rng_new_panics(rng.incr)]

SInit ==
    /\ \E seed \in 0..MaxSeed, ncol \in 1..MaxSNcol, ntree \in 1..MaxSNtree :
          s_in = RngFactory_new(seed, Some(ncol), Some(ntree))
    /\ s_out = {}
    /\ x_df = <<>> /\ x_prev = <<>> /\ x_call = <<>> /\ x_ops = 0
    /\ c_col = <<>> /\ c_y = <<>> /\ c_mask = <<>> /\ c_out = <<>>
    /\ m_in = <<>> /\ m_out = <<>>
    /\ t_df = <<>> /\ t_y = <<>> /\ t_bag = <<>> /\ t_oob = <<>> /\ t_args = <<>>
    /\ tr = <<>> /\ t_phase = "idle" /\ t_nbase = 0 /\ t_last = <<>> /\ t_imp = <<>>
    /\ f_in = <<>> /\ f_pc = "idle" /\ f_rng_factory = <<>> /\ f_w = <<>> /\ f_mutex = None
    /\ f_ith_tree_mut = 0 /\ f_chan = <<>> /\ f_nrecv = 0 /\ f_imp = <<>>
    /\ b_in = <<>> /\ b_run = <<>> /\ b_alt = <<>>

\* rng_factory.new_rng_shadow(c)
SShadow ==
    /\ Cardinality(s_out) < MaxStreams
    /\ \E c \in 0..(s_in.ncol[1] - 1) :
          s_out' = s_out \cup {Stream("shadow", 0, c, new_rng_shadow(s_in, c))}
    /\ UNCHANGED <<s_in, tvars, fvars, bvars, xvars, cvars, mvars>>

\* rng_factory.new_rng_tree(i)
STree ==
    /\ Cardinality(s_out) < MaxStreams
    /\ \E i \in 0..(s_in.ntree[1] - 1) :
          s_out' = s_out \cup {Stream("tree", i, 0, new_rng_tree(s_in, i))}
    /\ UNCHANGED <<s_in, tvars, fvars, bvars, xvars, cvars, mvars>>

\* rng_factory.new_rng_tree_mask(i)
STreeMask ==
    /\ Cardinality(s_out) < MaxStreams
    /\ \E i \in 0..(s_in.ntree[1] - 1) :
          s_out' = s_out \cup {Stream("tree_mask", i, 0, new_rng_tree_mask(s_in, i))}
    /\ UNCHANGED <<s_in, tvars, fvars, bvars, xvars, cvars, mvars>>

\* rng_factory.new_rng_permutation(i, c)
SPermutation ==
    /\ Cardinality(s_out) < MaxStreams
    /\ \E i \in 0..(s_in.ntree[1] - 1), c \in 0..(s_in.ncol[1] - 1) :
          s_out' = s_out \cup {Stream("permutation", i, c, new_rng_permutation(s_in, i, c))}
    /\ UNCHANGED <<s_in, tvars, fvars, bvars, xvars, cvars, mvars>>

SNext == SShadow \/ STree \/ STreeMask \/ SPermutation

StreamSpec == SInit /\ [][SNext]_vars

\* The increment listed for a stream of a factory with ncol columns and
\* ntree trees.
ListedIncrement(s, ncol, ntree) ==
    CASE s.kind = "shadow" -> s.col_id + 1
      [] s.kind = "tree" -> ncol + s.ith_tree + 1
      [] s.kind = "tree_mask" -> ncol + ntree + s.ith_tree + 1
      [] s.kind = "permutation" -> ncol + 2 * ntree + s.ith_tree * ncol + s.col_id + 1

\* C16: for ncol >= 1, ntree >= 1, c < ncol and i < ntree each stream has
\* the listed increment, two distinct streams of any kinds have different
\* increments, and every increment is at least 1, so Rng::new accepts it.
C16_IncrementsDistinct ==
    /\ \A s \in s_out :
          /\ s.rng.incr = ListedIncrement(s, s_in.ncol[1], s_in.ntree[1])
          /\ s.rng.incr >= 1
          /\ ~s.panic
          /\ s.rng.seed = s_in.seed
    /\ \A s1, s2 \in s_out :
          <<s1.kind, s1.ith_tree, s1.col_id>> # <<s2.kind, s2.ith_tree, s2.col_id>>
              => s1.rng.incr # s2.rng.incr

\* C16 happens: the last tree_mask stream and the first permutation stream
\* of a factory with several columns and trees, whose increments are
\* neighbours.
C16_Witness ==
    /\ s_in # <<>>
    /\ s_in.ncol[1] >= 2
    /\ s_in.ntree[1] >= 2
    /\ \E s1, s2 \in s_out :
          /\ s1.kind = "tree_mask" /\ s1.ith_tree = s_in.ntree[1] - 1
          /\ s2.kind = "permutation" /\ s2.ith_tree = 0 /\ s2.col_id = 0
          /\ s2.rng.incr = s1.rng.incr + 1

(***************************************************************************)
(* The column specification: one ThreeValCol, a response and a mask, and   *)
(* the calls of split_with_pivot, make_split and gen_optimal_pivot.        *)
(***************************************************************************)
CRows == 0..(CRow - 1)

\* The column that differs from col in every row.
Recolour(col) ==
    [i \in 1..Len(col) |->
        IF col[i] = "Red" THEN "Green" ELSE IF col[i] = "Green" THEN "Blue" ELSE "Red"]

\* The frames that hold col next to another column: as the first column of
\* a new frame, as the second, and moved to the front by subset under its
\* split-id 1.
CFrames(col) ==
    { XDf_new(<<col, Recolour(col)>>),
      XDf_new(<<Recolour(col), col>>),
      subset(XDf_new(<<Recolour(col), col>>),
             <<[col_id |-> 1, shadow |-> FALSE], [col_id |-> 0, shadow |-> FALSE]>>).df }

\* The split-id of col in a frame of CFrames(col).
CColId(df) == IF df = XDf_new(<<df.data[1], df.data[2]>>) /\ df.data[2] = Recolour(df.data[1])
              THEN 0 ELSE 1

NoColCall == [op |-> "none", pivot |-> "NotRed", df |-> <<>>, masks |-> <<>>, res |-> <<>>]

CInit ==
    /\ c_col \in [1..CRow -> ThreeVal]
    /\ c_y = <<>>
    /\ c_mask \in {SetToMask(S) : S \in SUBSET CRows}
    /\ c_out = NoColCall
    /\ x_df = <<>> /\ x_prev = <<>> /\ x_call = <<>> /\ x_ops = 0
    /\ s_in = <<>> /\ s_out = <<>>
    /\ m_in = <<>> /\ m_out = <<>>
    /\ t_df = <<>> /\ t_y = <<>> /\ t_bag = <<>> /\ t_oob = <<>> /\ t_args = <<>>
    /\ tr = <<>> /\ t_phase = "idle" /\ t_nbase = 0 /\ t_last = <<>> /\ t_imp = <<>>
    /\ f_in = <<>> /\ f_pc = "idle" /\ f_rng_factory = <<>> /\ f_w = <<>> /\ f_mutex = None
    /\ f_ith_tree_mut = 0 /\ f_chan = <<>> /\ f_nrecv = 0 /\ f_imp = <<>>
    /\ b_in = <<>> /\ b_run = <<>> /\ b_alt = <<>>

\* col.split_with_pivot(&mask, &p, None)
CSplit ==
    /\ c_out.op = "none"
    /\ \E p \in ThreeValPivot :
          c_out' = [op |-> "split_with_pivot", pivot |-> p, df |-> <<>>,
                    masks |-> split_with_pivot(c_col, c_mask, p), res |-> <<>>]
    /\ UNCHANGED <<c_col, c_y, c_mask>>
    /\ UNCHANGED <<tvars, fvars, bvars, xvars, svars, mvars>>

\* df.make_split(ColSplitIndex {col_id, pivot, shadow: false}, &mask, &rng_factory, None)
CMakeSplit ==
    /\ c_out.op = "none"
    /\ \E p \in ThreeValPivot, df \in CFrames(c_col) :
          c_out' = [op |-> "make_split", pivot |-> p, df |-> df,
                    masks |-> make_split(df, SplitOn(CColId(df), p), c_mask, None),
                    res |-> <<>>]
    /\ UNCHANGED <<c_col, c_y, c_mask>>
    /\ UNCHANGED <<tvars, fvars, bvars, xvars, svars, mvars>>

CNext == CSplit \/ CMakeSplit

ColumnSpec == CInit /\ [][CNext]_vars

(***************************************************************************)
(* The pivot specification: gen_optimal_pivot on a column, a response and  *)
(* a mask.                                                                 *)
(***************************************************************************)
GInit ==
    /\ c_col \in [1..CRow -> ThreeVal]
    /\ c_y \in [1..CRow -> BOOLEAN]
    /\ c_mask \in {SetToMask(S) : S \in SUBSET CRows}
    /\ c_out = NoColCall
    /\ x_df = <<>> /\ x_prev = <<>> /\ x_call = <<>> /\ x_ops = 0
    /\ s_in = <<>> /\ s_out = <<>>
    /\ m_in = <<>> /\ m_out = <<>>
    /\ t_df = <<>> /\ t_y = <<>> /\ t_bag = <<>> /\ t_oob = <<>> /\ t_args = <<>>
    /\ tr = <<>> /\ t_phase = "idle" /\ t_nbase = 0 /\ t_last = <<>> /\ t_imp = <<>>
    /\ f_in = <<>> /\ f_pc = "idle" /\ f_rng_factory = <<>> /\ f_w = <<>> /\ f_mutex = None
    /\ f_ith_tree_mut = 0 /\ f_chan = <<>> /\ f_nrecv = 0 /\ f_imp = <<>>
    /\ b_in = <<>> /\ b_run = <<>> /\ b_alt = <<>>

\* col.gen_optimal_pivot(&mask, &y, None)
CGenPivot ==
    /\ c_out.op = "none"
    /\ c_out' = [op |-> "gen_optimal_pivot", pivot |-> "NotRed", df |-> <<>>,
                 masks |-> <<>>, res |-> gen_optimal_pivot(c_col, c_mask, c_y, None)]
    /\ UNCHANGED <<c_col, c_y, c_mask>>
    /\ UNCHANGED <<tvars, fvars, bvars, xvars, svars, mvars>>

GNext == CGenPivot

PivotSpec == GInit /\ [][GNext]_vars

\* v is sorted ascending without repeats.
StrictlyAscending(v) == \A j, k \in 1..Len(v) : j < k => v[j] < v[k]

\* left and right partition mask, each in ascending order, which is the
\* relative order of the sorted mask.
Partitions(left, right, mask) ==
    /\ Range(left) \cup Range(right) = Range(mask)
    /\ Range(left) \cap Range(right) = {}
    /\ Len(left) + Len(right) = Len(mask)
    /\ StrictlyAscending(left)
    /\ StrictlyAscending(right)

\* C17: for every column, sorted mask and pivot, split_with_pivot returns
\* two masks that partition the input mask, both sorted ascending and in the
\* relative order of the input mask; the column and the input mask are as
\* before the call.
C17_SplitPartitions ==
    [][c_out'.op = "split_with_pivot" =>
          /\ StrictlyAscending(c_mask)
          /\ Len(c_out'.masks) = 2
          /\ Partitions(c_out'.masks[1], c_out'.masks[2], c_mask)
          /\ c_col' = c_col
          /\ c_mask' = c_mask]_vars

\* C17 happens: a mask of at least three rows was split into two masks of
\* which one holds rows on both sides of a row of the other.
C17_Witness ==
    /\ c_out.op = "split_with_pivot"
    /\ Len(c_mask) >= 3
    /\ \E a, b \in Range(c_out.masks[1]) : \E r \in Range(c_out.masks[2]) : a < r /\ r < b

\* The category X of the pivot NotX.
Excluded(p) == IF p = "NotRed" THEN "Red" ELSE IF p = "NotGreen" THEN "Green" ELSE "Blue"

\* The masked rows whose value is in the set vals, as a mask.
RowsWith(vals) == SetToMask({r \in Range(c_mask) : At(c_col, r) \in vals})

\* C18: for every column, mask and category X, split_with_pivot with pivot
\* NotX returns as left mask the masked rows whose value is not X and as
\* right mask the masked rows whose value is X; make_split with a split
\* index of that pivot and no replacement column returns the same pair for
\* the column its split-id resolves to.
C18_NotXGoesLeft ==
    /\ c_out.op \in {"split_with_pivot", "make_split"} =>
          c_out.masks = << RowsWith(ThreeVal \ {Excluded(c_out.pivot)}),
                           RowsWith({Excluded(c_out.pivot)}) >>
    /\ c_out.op = "make_split" =>
          /\ idx_to_splitid(c_out.df, splitid_to_idx(c_out.df, CColId(c_out.df)))
                = CColId(c_out.df)
          /\ get_col(c_out.df, splitid_to_idx(c_out.df, CColId(c_out.df))) = c_col
          /\ c_out.masks = split_with_pivot(c_col, c_mask, c_out.pivot)

\* C18 happens: make_split on a frame whose split-id 1 sits at physical
\* index 0, with rows sent to both sides.
C18_Witness ==
    /\ c_out.op = "make_split"
    /\ CColId(c_out.df) = 1
    /\ splitid_to_idx(c_out.df, 1) = 0
    /\ Len(c_out.masks[1]) >= 1
    /\ Len(c_out.masks[2]) >= 2

\* C19 as stated: split_with_pivot sends a masked row left if pivot == value
\* is false and right if it is true, so NotRed sends the Red rows left,
\* NotGreen the Green rows and NotBlue the Blue rows.
C19_ExcludedGoesLeft ==
    c_out.op = "split_with_pivot" =>
        /\ \A r \in Range(c_mask) :
              /\ ~PivotEq(c_out.pivot, At(c_col, r)) => r \in Range(c_out.masks[1])
              /\ PivotEq(c_out.pivot, At(c_col, r)) => r \in Range(c_out.masks[2])
        /\ \A r \in Range(c_mask) :
              At(c_col, r) = Excluded(c_out.pivot) => r \in Range(c_out.masks[1])

\* C19 amended: split_with_pivot sends a masked row left if pivot == value
\* is true and right if it is false, so NotRed sends the Red rows right and
\* the Green and Blue rows left, and likewise NotGreen and NotBlue.
C19_ExcludedGoesRight ==
    c_out.op = "split_with_pivot" =>
        /\ \A r \in Range(c_mask) :
              /\ PivotEq(c_out.pivot, At(c_col, r)) => r \in Range(c_out.masks[1])
              /\ ~PivotEq(c_out.pivot, At(c_col, r)) => r \in Range(c_out.masks[2])
        /\ \A r \in Range(c_mask) :
              /\ At(c_col, r) = Excluded(c_out.pivot) =>
                    r \in Range(c_out.masks[2]) /\ r \notin Range(c_out.masks[1])
              /\ At(c_col, r) # Excluded(c_out.pivot) =>
                    r \in Range(c_out.masks[1]) /\ r \notin Range(c_out.masks[2])

\* C19 happens: a NotGreen split of a mask that holds Green rows and rows of
\* both other colours.
C19_Witness ==
    /\ c_out.op = "split_with_pivot"
    /\ c_out.pivot = "NotGreen"
    /\ {At(c_col, r) : r \in Range(c_mask)} = ThreeVal
    /\ \E r \in Range(c_out.masks[2]) : At(c_col, r) = "Green"
    /\ \E r \in Range(c_out.masks[1]) : At(c_col, r) = "Red"
    /\ \E r \in Range(c_out.masks[1]) : At(c_col, r) = "Blue"

\* Equality of two rationals.
RatEq(a, b) == a[1] * b[2] = b[1] * a[2]

\* The masked rows with a colour in vals and response b.
Cell(vals, b) ==
    Cardinality({r \in Range(c_mask) : At(c_col, r) \in vals /\ At(c_y, r) = b})

\* gini_part(a, b, n) = (a+b)/n - (a^2 + b^2)/(a+b)/n if a + b > 0, else 0
ListedPart(a, b, n) ==
    IF a + b > 0 THEN <<(a + b) * (a + b) - (a * a + b * b), (a + b) * n>> ELSE <<0, 1>>

\* The one-vs-rest cost of category X on the masked rows: the Gini part of
\* the X rows plus the Gini part of the other rows.
ListedCost(X) ==
    RatAdd(ListedPart(Cell({X}, TRUE), Cell({X}, FALSE), Len(c_mask)),
           ListedPart(Cell(ThreeVal \ {X}, TRUE), Cell(ThreeVal \ {X}, FALSE), Len(c_mask)))

\* NotRed if s_R < s_G and s_R < s_B, otherwise NotGreen if s_G < s_B,
\* otherwise NotBlue.
ListedPivot ==
    IF RatLt(ListedCost("Red"), ListedCost("Green")) /\ RatLt(ListedCost("Red"), ListedCost("Blue"))
    THEN "NotRed"
    ELSE IF RatLt(ListedCost("Green"), ListedCost("Blue")) THEN "NotGreen" ELSE "NotBlue"

\* The column and the response changed in one row outside the mask.
OutsideChanged ==
    {<<[c_col EXCEPT ![r + 1] = v], [c_y EXCEPT ![r + 1] = ~c_y[r + 1]]>>
        : r \in CRows \ Range(c_mask), v \in ThreeVal}

\* C20: on a non-empty mask gen_optimal_pivot without shadow RNG takes the
\* three one-vs-rest costs of the masked rows only, returns NotRed with s_R
\* if s_R < s_G and s_R < s_B, otherwise NotGreen with s_G if s_G < s_B,
\* otherwise NotBlue with s_B; the cost returned is the least of the three,
\* and the unreachable!() arm is not taken.
C20_OptimalPivot ==
    c_out.op = "gen_optimal_pivot" /\ c_mask # <<>> =>
        /\ ~c_out.res.panic
        /\ c_out.res.pivot = ListedPivot
        /\ RatEq(c_out.res.score, ListedCost(Excluded(c_out.res.pivot)))
        /\ \A X \in ThreeVal : ~RatLt(ListedCost(X), c_out.res.score)
        /\ \A alt \in OutsideChanged :
              gen_optimal_pivot(alt[1], c_mask, alt[2], None) = c_out.res

\* C20 happens: NotGreen is returned on a tie of the Red and Green costs
\* below the Blue cost, on a mask that leaves rows out.
C20_Witness ==
    /\ c_out.op = "gen_optimal_pivot"
    /\ c_mask # <<>>
    /\ Len(c_mask) < CRow
    /\ c_out.res.pivot = "NotGreen"
    /\ RatEq(ListedCost("Red"), ListedCost("Green"))
    /\ RatLt(ListedCost("Green"), ListedCost("Blue"))

\* Costs a and b are equal and not above cost c.
TiedMinimal(a, b, c) == RatEq(a, b) /\ ~RatLt(c, a)

\* Costs a and b are equal and below cost c.
TiedBelow(a, b, c) == RatEq(a, b) /\ RatLt(a, c)

\* The last call was gen_optimal_pivot on a non-empty mask.
PivotChosen == c_out.op = "gen_optimal_pivot" /\ c_mask # <<>>

\* C21 as stated: when two of the three costs are equal and minimal, the
\* pivot of the group that comes first in Red, Green, Blue is returned:
\* s_R = s_G gives NotRed, s_R = s_B gives NotRed, s_G = s_B gives NotGreen.
C21_TieGoesToEarlier ==
    PivotChosen =>
        /\ TiedMinimal(ListedCost("Red"), ListedCost("Green"), ListedCost("Blue"))
              => c_out.res.pivot = "NotRed"
        /\ TiedMinimal(ListedCost("Red"), ListedCost("Blue"), ListedCost("Green"))
              => c_out.res.pivot = "NotRed"
        /\ TiedMinimal(ListedCost("Green"), ListedCost("Blue"), ListedCost("Red"))
              => c_out.res.pivot = "NotGreen"

\* C21 amended: when two of the three costs are equal and below the third,
\* the pivot of the group that comes later in Red, Green, Blue is returned:
\* s_R = s_G gives NotGreen, s_R = s_B gives NotBlue, s_G = s_B gives
\* NotBlue; when all three are equal NotBlue is returned.
C21_TieGoesToLater ==
    PivotChosen =>
        /\ TiedBelow(ListedCost("Red"), ListedCost("Green"), ListedCost("Blue"))
              => c_out.res.pivot = "NotGreen"
        /\ TiedBelow(ListedCost("Red"), ListedCost("Blue"), ListedCost("Green"))
              => c_out.res.pivot = "NotBlue"
        /\ TiedBelow(ListedCost("Green"), ListedCost("Blue"), ListedCost("Red"))
              => c_out.res.pivot = "NotBlue"
        /\ RatEq(ListedCost("Red"), ListedCost("Green"))
              /\ RatEq(ListedCost("Green"), ListedCost("Blue"))
              => c_out.res.pivot = "NotBlue"

\* C21 happens: the Red and Blue costs are equal and below the Green cost.
C21_Witness ==
    /\ PivotChosen
    /\ TiedBelow(ListedCost("Red"), ListedCost("Blue"), ListedCost("Green"))
    /\ c_out.res.pivot = "NotBlue"
    /\ RatEq(c_out.res.score, ListedCost("Red"))

(***************************************************************************)
(* The shared tree counter of the parallel branch                          *)
(***************************************************************************)
\* How often index i has been taken: once per message sent for it and once
\* per worker that holds it and has not sent it.
TakenCount(i) ==
    Cardinality({k \in 1..Len(f_chan) : f_chan[k].ith_tree = i})
        + Cardinality({w \in Workers : /\ f_w[w].pc \in {"compute", "send", "panicked"}
                                       /\ f_w[w].ith_tree = i})

\* The messages sent for index i.
SentCount(i) == Cardinality({k \in 1..Len(f_chan) : f_chan[k].ith_tree = i})

\* thread::scope has returned without a panic and nothing was received yet.
ScopeDone == f_pc = "drain" /\ f_nrecv = 0

\* What holds of the counter in the next state of a step of the parallel
\* branch: it grew by at most one, it is at most ntree, the indices below it
\* are taken once and no other index is taken, a worker that read it under
\* the lock stopped exactly when it was >= ntree, and when the scope is done
\* every index of [0, ntree) was taken and has exactly one message.
CounterStep ==
    /\ f_ith_tree_mut' \in {f_ith_tree_mut, f_ith_tree_mut + 1}
    /\ f_ith_tree_mut' <= f_in.ntree
    /\ \A i \in 0..(f_in.ntree - 1) :
          TakenCount(i)' = (IF i < f_ith_tree_mut' THEN 1 ELSE 0)
    /\ \A w \in Workers :
          f_w[w].pc = "locked" /\ f_w'[w].pc # "locked" =>
              /\ f_ith_tree_mut >= f_in.ntree <=> f_w'[w].pc = "joined"
              /\ f_ith_tree_mut < f_in.ntree =>
                    /\ f_w'[w].pc = "compute"
                    /\ f_w'[w].ith_tree = f_ith_tree_mut
                    /\ f_ith_tree_mut' = f_ith_tree_mut + 1
    /\ ScopeDone' =>
          /\ f_ith_tree_mut' = f_in.ntree
          /\ \A i \in 0..(f_in.ntree - 1) : SentCount(i)' = 1
          /\ Len(f_chan') = f_in.ntree

\* C22: in the parallel branch, under every interleaving, the counter grows
\* by one at a time and never exceeds ntree, every index of [0, ntree) is
\* taken by exactly one worker exactly once, a worker stops as soon as it
\* reads a counter >= ntree, and one message is sent per index taken.
C22_EveryIndexOnce ==
    [][f_in.multithread # None /\ f_pc' \in {"scope", "drain"} /\ f_nrecv' = 0
          => CounterStep]_vars

\* The same with at least one worker spawned.
EveryIndexOnceWithWorkers ==
    [][Workers # {} /\ f_pc' \in {"scope", "drain"} /\ f_nrecv' = 0 => CounterStep]_vars

(***************************************************************************)
(* Build rules, read back from the finished arena.                         *)
(***************************************************************************)
\* The calls of _build_tree that pushed node v and the nodes below it: each
\* with the mask and the depth it was given.
RECURSIVE Visits(_, _, _, _, _)
Visits(df, nodes, v, mask, depth) ==
    IF At(nodes, v).kind # "Sp" THEN {[node |-> v, mask |-> mask, depth |-> depth]}
    ELSE {[node |-> v, mask |-> mask, depth |-> depth]}
           \cup Visits(df, nodes, At(nodes, v).l_child_idx,
                       make_split(df, At(nodes, v).split_index, mask, None)[1], depth + 1)
           \cup Visits(df, nodes, At(nodes, v).r_child_idx,
                       make_split(df, At(nodes, v).split_index, mask, None)[2], depth + 1)

BuildVisits == Visits(t_df, tr.tree, Len(tr.tree) - 1, t_bag, 0)

AtDepthLimit(depth) ==
    t_args.max_tree_depth # None /\ depth >= t_args.max_tree_depth[1]

\* Some split find_min_idx can choose on the mask leaves one side empty.
ChosenSplitIsOneSided(mask) ==
    \E split_idx \in find_min_idx(t_df, mask, t_y, t_args.mtry, tr.rng_factory,
                                  t_args.shadow_vars) :
        \/ Len(make_split(t_df, split_idx, mask, None)[1]) = 0
        \/ Len(make_split(t_df, split_idx, mask, None)[2]) = 0

SplitColumns ==
    {get_col_id(At(tr.tree, v).split_index) :
        v \in {u \in 0..(Len(tr.tree) - 1) : At(tr.tree, u).kind = "Sp"}}

\* C23: in a built tree a node with a single-class mask is the Leaf of that
\* class; a node with a mixed mask at depth >= d is a majority-class Leaf,
\* so every Split lies at depth < d and no path holds more than d Splits; a
\* mixed node above the limit is a majority-class Leaf exactly when its
\* chosen split is one-sided, and split_cols holds the columns of the
\* emitted Splits only.
C23_BuildRules ==
    t_phase = "built" /\ t_nbase = 0 =>
        /\ \A c \in BuildVisits :
              /\ get_class(t_y, c.mask).class # None =>
                    At(tr.tree, c.node) = create_leaf(get_class(t_y, c.mask).class[1])
              /\ get_class(t_y, c.mask).class = None /\ AtDepthLimit(c.depth) =>
                    /\ At(tr.tree, c.node).kind = "Lf"
                    /\ At(tr.tree, c.node).class \in get_major_class(t_y, c.mask)
              /\ At(tr.tree, c.node).kind = "Sp" =>
                    /\ ~AtDepthLimit(c.depth)
                    /\ Len(make_split(t_df, At(tr.tree, c.node).split_index, c.mask, None)[1]) > 0
                    /\ Len(make_split(t_df, At(tr.tree, c.node).split_index, c.mask, None)[2]) > 0
              /\ ( /\ get_class(t_y, c.mask).class = None
                   /\ ~AtDepthLimit(c.depth)
                   /\ At(tr.tree, c.node).kind = "Lf" ) =>
                    /\ ChosenSplitIsOneSided(c.mask)
                    /\ At(tr.tree, c.node).class \in get_major_class(t_y, c.mask)
              /\ t_args.max_tree_depth # None => c.depth <= t_args.max_tree_depth[1]
        /\ t_args.max_tree_depth = Some(0) => Len(tr.tree) = 1
        /\ tr.split_cols = SplitColumns

\* C23 happens: a tree built with depth limit 1 whose root is a Split with a
\* mixed mask on one side, cut to a majority-class Leaf.
C23_Witness ==
    /\ t_phase = "built" /\ t_nbase = 0
    /\ t_args.max_tree_depth = Some(1)
    /\ At(tr.tree, Len(tr.tree) - 1).kind = "Sp"
    /\ \E c \in BuildVisits : c.depth = 1 /\ get_class(t_y, c.mask).class = None

\* A mixed node above the depth limit ends as a Leaf: its split was one-sided.
OneSidedLeafBuilt ==
    /\ t_phase = "built" /\ t_nbase = 0
    /\ \E c \in BuildVisits :
          /\ get_class(t_y, c.mask).class = None
          /\ ~AtDepthLimit(c.depth)
          /\ At(tr.tree, c.node).kind = "Lf"

(***************************************************************************)
(* The caches after the first prediction pass.                             *)
(***************************************************************************)
\* The masks the prediction walk hands to the nodes, from the OOB mask.
PredictVisits == Visits(t_df, tr.tree, Len(tr.tree) - 1, t_oob, 0)

\* The number of a Split in the walk: the Splits finished before it.
SplitNumber(v) == Cardinality({u \in 0..(v - 1) : At(tr.tree, u).kind = "Sp"})

SplitsOn(c) ==
    {v \in 0..(Len(tr.tree) - 1) :
        At(tr.tree, v).kind = "Sp" /\ get_col_id(At(tr.tree, v).split_index) = c}

\* The rows whose predictions lie in the slice of preds_cache for node v.
CachedRows(v) ==
    {At(t_oob, At(tr.preds_cache, i)[2]) :
        i \in At(tr.preds_cache_range, v)[1]..(At(tr.preds_cache_range, v)[2] - 1)}

FirstPassDone == t_phase = "built" /\ t_nbase = 1

\* C24: after the first unpermuted pass over a tree of N nodes the three
\* per-node caches hold N entries, entry v for arena node v (empty masks
\* included); the prediction range of a Split is its children's ranges laid
\* end to end and covers exactly the rows of its mask; split_mask_map[c]
\* holds exactly the numbers of the Splits on column c; and for a Split v
\* the numbers inside its split range are those of v and of the Splits
\* below v.
C24_CachesAfterFirstPass ==
    FirstPassDone =>
        /\ Len(tr.mask_cache) = Len(tr.tree)
        /\ Len(tr.preds_cache_range) = Len(tr.tree)
        /\ Len(tr.split_idx_cache_range) = Len(tr.tree)
        /\ \A c \in PredictVisits : At(tr.mask_cache, c.node) = c.mask
        /\ \A v \in 0..(Len(tr.tree) - 1) :
              /\ At(tr.split_idx_cache_range, v)[2] = SplitNumber(v)
              /\ At(tr.preds_cache_range, v)[2] - At(tr.preds_cache_range, v)[1]
                    = Len(At(tr.mask_cache, v))
              /\ CachedRows(v) = Range(At(tr.mask_cache, v))
              /\ At(tr.tree, v).kind = "Sp" =>
                    /\ At(tr.preds_cache_range, v)[1]
                          = At(tr.preds_cache_range, At(tr.tree, v).l_child_idx)[1]
                    /\ At(tr.preds_cache_range, At(tr.tree, v).l_child_idx)[2]
                          = At(tr.preds_cache_range, At(tr.tree, v).r_child_idx)[1]
                    /\ At(tr.preds_cache_range, v)[2]
                          = At(tr.preds_cache_range, At(tr.tree, v).r_child_idx)[2]
                    /\ \A u \in 0..(Len(tr.tree) - 1) :
                          At(tr.tree, u).kind = "Sp" =>
                              ( ( /\ At(tr.split_idx_cache_range, v)[1] <= SplitNumber(u)
                                  /\ SplitNumber(u) <= At(tr.split_idx_cache_range, v)[2] )
                                <=> u \in Reached(tr.tree, v, Len(tr.tree)) )
        /\ DOMAIN tr.split_mask_map = tr.split_cols
        /\ \A c \in DOMAIN tr.split_mask_map :
              /\ Range(tr.split_mask_map[c]) = {SplitNumber(v) : v \in SplitsOn(c)}
              /\ Len(tr.split_mask_map[c]) = Cardinality(SplitsOn(c))

\* C24 happens: a first pass over a tree with a Split below the root, a
\* node whose OOB mask is empty and a Split that holds OOB rows on both sides.
C24_Witness ==
    /\ FirstPassDone
    /\ Len(tr.tree) >= 5
    /\ \E v \in 0..(Len(tr.tree) - 1) : Len(At(tr.mask_cache, v)) = 0
    /\ Len(At(tr.mask_cache, At(tr.tree, Len(tr.tree) - 1).l_child_idx)) > 0
    /\ Len(At(tr.mask_cache, At(tr.tree, Len(tr.tree) - 1).r_child_idx)) > 0

(***************************************************************************)
(* Which calls write the caches.                                           *)
(***************************************************************************)
Caches(t) ==
    <<t.mask_cache, t.preds_cache, t.preds_cache_range, t.split_idx_cache_range,
      t.split_mask_map>>

\* The step is a predict or an importance call on the built tree.
PredictStep == t_phase = "built" /\ <<tr, t_nbase, t_last, t_imp>>' # <<tr, t_nbase, t_last, t_imp>>

\* C25: the five caches are written by the first unpermuted predict call
\* only: every later predict call, permuted or not, leaves them as they
\* are; and no predict or importance call changes the arena or split_cols.
C25_CachesWriteOnce ==
    [][PredictStep =>
          /\ t_nbase >= 1 => Caches(tr') = Caches(tr)
          /\ tr'.tree = tr.tree
          /\ tr'.split_cols = tr.split_cols]_vars

\* What holds: a permuted predict call never writes a cache, an unpermuted
\* call keeps what the caches hold as a prefix, and no call changes the
\* arena or split_cols.
PermutedPassKeepsCaches ==
    [][PredictStep =>
          /\ t_nbase' = t_nbase => Caches(tr') = Caches(tr)
          /\ \A k \in 1..4 :
                /\ Len(Caches(tr')[k]) >= Len(Caches(tr)[k])
                /\ SubSeq(Caches(tr')[k], 1, Len(Caches(tr)[k])) = Caches(tr)[k]
          /\ tr'.tree = tr.tree
          /\ tr'.split_cols = tr.split_cols]_vars

\* The second unpermuted pass has appended to the caches.
SecondPassAppended ==
    /\ t_phase = "built" /\ t_nbase = 2
    /\ Len(tr.mask_cache) = 2 * Len(tr.tree)

(***************************************************************************)
(* The sampling specification: one call of Rng::sample on a slice, or the  *)
(* bag mask next_tree draws for a response of that length with the OOB     *)
(* mask importance_per_tree derives from it.                               *)
(***************************************************************************)
SampleSlices == UNION {[1..n -> {"a", "b"}] : n \in 0..MaxSampleLen}

NoSample == [op |-> "none", res |-> <<>>, idx |-> <<>>, bag |-> <<>>, oob |-> <<>>,
             panic |-> FALSE]

MInit ==
    /\ \E x \in SampleSlices : \E k \in 0..(Len(x) + 1) : m_in = [x |-> x, k |-> k]
    /\ m_out = NoSample
    \* the tree, the forest and boruta are idle
    /\ t_df = <<>> /\ t_y = <<>> /\ t_bag = <<>> /\ t_oob = <<>> /\ t_args = <<>>
    /\ tr = <<>> /\ t_phase = "idle" /\ t_nbase = 0 /\ t_last = <<>> /\ t_imp = <<>>
    /\ f_in = <<>> /\ f_pc = "idle" /\ f_rng_factory = <<>> /\ f_w = <<>> /\ f_mutex = None
    /\ f_ith_tree_mut = 0 /\ f_chan = <<>> /\ f_nrecv = 0 /\ f_imp = <<>>
    /\ b_in = <<>> /\ b_run = <<>> /\ b_alt = <<>>
    \* frames, streams and columns are idle
    /\ x_df = <<>> /\ x_prev = <<>> /\ x_call = <<>> /\ x_ops = 0
    /\ s_in = <<>> /\ s_out = <<>>
    /\ c_col = <<>> /\ c_y = <<>> /\ c_mask = <<>> /\ c_out = <<>>

\* rng.sample(x, k)
MSample ==
    /\ m_out.op = "none"
    /\ \E r \in Rng_sample(m_in.x, m_in.k) :
          m_out' = [op |-> "sample", res |-> r.res, idx |-> r.idx, bag |-> <<>>,
                    oob |-> <<>>, panic |-> r.panic]
    /\ UNCHANGED <<m_in, tvars, fvars, bvars, xvars, svars, cvars>>

\* next_tree: Mask::random_mask(y.len(), SAMPLE_FRACTION, rng) for the
\* response x; importance_per_tree: mask.inverse(0..y.len())
MRandomMask ==
    /\ m_out.op = "none"
    /\ \E r \in random_mask(Len(m_in.x), SAMPLE_FRACTION) :
          m_out' = [op |-> "random_mask", res |-> <<>>, idx |-> <<>>, bag |-> r.mask,
                    oob |-> IF r.panic THEN <<>>
                            ELSE Mask_inverse(r.mask, [j \in 1..Len(m_in.x) |-> j - 1]),
                    panic |-> r.panic]
    /\ UNCHANGED <<m_in, tvars, fvars, bvars, xvars, svars, cvars>>

MNext == MSample \/ MRandomMask

SampleSpec == MInit /\ [][MNext]_vars

\* C26: the bag mask of a tree over nrow rows holds floor(nrow * 0.66)
\* distinct rows of [0, nrow) in ascending order; the OOB mask is ascending,
\* disjoint from the bag, with the bag it covers every row, and its length
\* is the oob_n by which Forest.importance divides.
C26_BagAndOob ==
    m_out.op = "random_mask" /\ ~m_out.panic =>
        /\ Len(m_out.bag) = (Len(m_in.x) * 66) \div 100
        /\ StrictlyAscending(m_out.bag)
        /\ Range(m_out.bag) \subseteq 0..(Len(m_in.x) - 1)
        /\ StrictlyAscending(m_out.oob)
        /\ Range(m_out.oob) = (0..(Len(m_in.x) - 1)) \ Range(m_out.bag)
        /\ Len(m_out.oob) = oob_n(Len(m_in.x))
        /\ Len(m_out.oob) = Len(m_in.x) - (Len(m_in.x) * 66) \div 100

\* C26 happens: a bag of three of five rows that the sample returned out of
\* order, with its two OOB rows.
C26_Witness ==
    /\ m_out.op = "random_mask" /\ ~m_out.panic
    /\ Len(m_in.x) = 5
    /\ m_out.bag = <<1, 3, 4>>
    /\ m_out.oob = <<0, 2>>

\* The elements of res were read from pairwise distinct positions of x.
FromDistinctPositions(x, r) ==
    /\ Len(r.idx) = Len(r.res)
    /\ \A j \in 1..Len(r.idx) : r.idx[j] \in 0..(Len(x) - 1) /\ r.res[j] = At(x, r.idx[j])
    /\ \A a, b \in 1..Len(r.idx) : r.idx[a] = r.idx[b] => a = b

SampleReturned ==
    /\ ~m_out.panic
    /\ Len(m_out.res) = m_in.k
    /\ FromDistinctPositions(m_in.x, m_out)
    /\ m_in.k = Len(m_in.x) => m_out.res = m_in.x

\* C27: for 0 <= k <= len(x) and every outcome of the draws Rng::sample
\* returns k elements read from pairwise distinct positions of x, x itself
\* when k = len(x); for k > len(x) it panics.
C27_SampleReturnsK ==
    m_out.op = "sample" =>
        IF m_in.k <= Len(m_in.x) THEN SampleReturned ELSE m_out.panic

\* What holds: the same for 1 <= k <= len(x) and for k > len(x).
SampleReturnsKFromOne ==
    m_out.op = "sample" /\ m_in.k >= 1 =>
        IF m_in.k <= Len(m_in.x) THEN SampleReturned ELSE m_out.panic

\* The outcomes of the loop are the samples find_min_idx draws from: slot j
\* keeps j or holds a position >= k, and no position is held twice.
SampleLoopOutcomes ==
    m_out.op = "sample" /\ m_in.k \in 1..Len(m_in.x) =>
        {r.idx : r \in Rng_sample(m_in.x, m_in.k)} = sample(Len(m_in.x), m_in.k)

\* A sample of three of five elements with two slots overwritten.
SampleOverwritten ==
    /\ m_out.op = "sample" /\ ~m_out.panic
    /\ Len(m_in.x) = 5 /\ m_in.k = 3
    /\ m_out.idx = <<4, 1, 3>>

(***************************************************************************)
(* The run specification: a forest run on a frame, either the frame of     *)
(* XDf::new or the frame boruta builds from it by subset and add_shadows,  *)
(* and the permutation streams its trees request through permute_index.    *)
(***************************************************************************)
\* The lists boruta hands to subset: the tentative and confirmed columns, a
\* non-empty set of the frame's ids, in ascending or descending order.
BorutaIdLists(df) ==
    UNION {{[k \in 1..Cardinality(S) |-> [col_id |-> SetToSeq(S)[k], shadow |-> FALSE]],
            [k \in 1..Cardinality(S) |-> [col_id |-> Reverse(SetToSeq(S))[k], shadow |-> FALSE]]}
           : S \in SUBSET {id.col_id : id \in Range(get_col_ids(df))} \ {{}}}

QInit ==
    /\ x_df \in XFrames
    /\ x_prev = <<>>
    /\ x_call = NewCall
    /\ x_ops = 0
    /\ s_in = <<>> /\ s_out = {}
    /\ m_in = <<>> /\ m_out = <<>>
    /\ c_col = <<>> /\ c_y = <<>> /\ c_mask = <<>> /\ c_out = <<>>
    /\ t_df = <<>> /\ t_y = <<>> /\ t_bag = <<>> /\ t_oob = <<>> /\ t_args = <<>>
    /\ tr = <<>> /\ t_phase = "idle" /\ t_nbase = 0 /\ t_last = <<>> /\ t_imp = <<>>
    /\ f_in = <<>> /\ f_pc = "idle" /\ f_rng_factory = <<>> /\ f_w = <<>> /\ f_mutex = None
    /\ f_ith_tree_mut = 0 /\ f_chan = <<>> /\ f_nrecv = 0 /\ f_imp = <<>>
    /\ b_in = <<>> /\ b_run = <<>> /\ b_alt = <<>>

\* boruta: cur_df = df.subset(&idxs); cur_df.add_shadows(rng_factory)
QBorutaFrame ==
    /\ x_ops = 0 /\ s_in = <<>>
    /\ \E split_ids \in BorutaIdLists(x_df) :
          \E r \in {add_shadows(subset(x_df, split_ids).df,
                                RngFactory_new(1 + SHADOW_SEED, None, None))} :
              /\ x_df' = r.df
              /\ x_call' = [op |-> "add_shadows", split_ids |-> split_ids,
                            rng_factory |-> RngFactory_new(1 + SHADOW_SEED, None, None),
                            panic |-> r.panic]
    /\ x_prev' = x_df
    /\ x_ops' = 1
    /\ UNCHANGED <<tvars, fvars, bvars, svars, cvars, mvars>>

\* importance_per_tree: RngFactory::new(self.seed, Some(df.get_ncol()), Some(ntree))
QFactory ==
    /\ s_in = <<>>
    /\ \E ntree \in 1..MaxSNtree :
          s_in' = RngFactory_new(1 + FOREST_SEED, Some(get_ncol(x_df)), Some(ntree))
    /\ UNCHANGED <<s_out, tvars, fvars, bvars, xvars, cvars, mvars>>

\* Tree::predict of tree i: df.permute_index(col, &self.rng_factory, mask, i)
\* for a column of the frame; the stream it draws the permutation from.
QPermute ==
    /\ s_in # <<>>
    /\ Cardinality(s_out) < MaxStreams
    /\ \E i \in 0..(s_in.ntree[1] - 1), col \in Range(get_col_ids(x_df)) :
          s_out' = s_out \cup {Stream("permutation", i, col.col_id,
                                      new_rng_permutation(s_in, i, col.col_id))}
    /\ UNCHANGED <<s_in, tvars, fvars, bvars, xvars, cvars, mvars>>

QNext == QBorutaFrame \/ QFactory \/ QPermute

RunSpec == QInit /\ [][QNext]_vars

\* No permutation stream has the increment of a tree stream or of a
\* tree-mask stream of the factory.
NotATreeStream(s) ==
    \A i \in 0..(s_in.ntree[1] - 1) :
        /\ s.rng.incr # new_rng_tree(s_in, i).incr
        /\ s.rng.incr # new_rng_tree_mask(s_in, i).incr

\* C28: in every forest run, also on a frame made by subset and
\* add_shadows, the permutation streams requested for two different
\* (tree, split-id) pairs have different increments, and none has the
\* increment of a tree or tree-mask stream of the factory.
C28_PermutationStreamsDistinct ==
    s_in # <<>> =>
        /\ \A a, b \in s_out :
              <<a.ith_tree, a.col_id>> # <<b.ith_tree, b.col_id>> => a.rng.incr # b.rng.incr
        /\ \A a \in s_out : NotATreeStream(a)

\* What holds: on the frame of XDf::new the permutation streams differ,
\* and on every frame none is a tree or tree-mask stream.
PermutationStreamsOfNewFrame ==
    s_in # <<>> =>
        /\ x_ops = 0 =>
              \A a, b \in s_out :
                  <<a.ith_tree, a.col_id>> # <<b.ith_tree, b.col_id>>
                      => a.rng.incr # b.rng.incr
        /\ \A a \in s_out : NotATreeStream(a)

\* Two trees of a run on a boruta frame have requested one stream for
\* different columns.
SharedPermutationStream ==
    /\ s_in # <<>> /\ x_ops = 1
    /\ \E a, b \in s_out : a.ith_tree # b.ith_tree /\ a.col_id # b.col_id
                             /\ a.rng.incr = b.rng.incr

(***************************************************************************)
(* boruta: decisions are final.                                            *)
(***************************************************************************)
\* One step of boruta keeps the decided columns decided, and the hits grow
\* by at most one hit per iteration.
DecisionsKept ==
    /\ Range(b_run.confirmed) \subseteq Range(b_run'.confirmed)
    /\ Range(b_run.rejected) \subseteq Range(b_run'.rejected)
    /\ \A idx \in DOMAIN b_run.hits_map :
          /\ b_run'.hits_map[idx] >= b_run.hits_map[idx]
          /\ b_run'.hits_map[idx] <= b_run'.iter
    /\ b_run'.iter = b_run'.forest_runs

\* The columns subset takes from df into cur_df (the shadows that
\* add_shadows appends are new columns, whatever split-id they are given).
AttrsInFrame(run) == Range(run.idxs)

\* At the decision loop no decided column is tested, and the confirmed
\* columns are in cur_df.
DecidedNotTested(run) ==
    /\ Range(run.tentative) \cap (Range(run.confirmed) \cup Range(run.rejected)) = {}
    /\ Range(run.confirmed) \subseteq AttrsInFrame(run)
    /\ AttrsInFrame(run) \subseteq Range(get_col_ids(run.cur_df))

\* C29: across the iterations confirmed and rejected only grow, a decided
\* column is never tested again, a rejected column is absent from cur_df
\* and a confirmed one present in every later iteration, and no hit count
\* decreases or exceeds the number of iterations run.
C29_DecisionsAreFinal ==
    [][b_run.pc \in {"loop", "decide"} =>
          /\ DecisionsKept
          /\ b_run'.pc = "decide" =>
                /\ DecidedNotTested(b_run')
                /\ Range(b_run'.rejected) \cap AttrsInFrame(b_run') = {}]_vars

\* C29 happens: the third iteration tests the one column left tentative
\* on a frame that holds the column confirmed in the second, which has
\* gained a hit since.
C29_Witness ==
    /\ b_run.pc = "decide" /\ b_run.iter = 3
    /\ Len(b_run.confirmed) = 1 /\ Len(b_run.tentative) = 1
    /\ b_run.confirmed[1] \in AttrsInFrame(b_run)
    /\ b_run.hits_map[b_run.confirmed[1]] = 3

\* An iteration after a rejection: the rejected column is not in the frame.
RejectedColumnLeftOut ==
    /\ b_run.pc = "decide" /\ b_run.iter = 3
    /\ Len(b_run.rejected) = 1 /\ Len(b_run.tentative) = 1
    /\ b_run.rejected[1] \notin AttrsInFrame(b_run)

(***************************************************************************)
(* build_tree ends.                                                        *)
(***************************************************************************)
NodesOfKind(kind) == {v \in 0..(Len(tr.tree) - 1) : At(tr.tree, v).kind = kind}

\* The masks of the two calls a Split makes.
ChildMasksOf(c) == make_split(t_df, At(tr.tree, c.node).split_index, c.mask, None)

\* The build returned without a panic (no scorer, get_class or
\* get_major_class met an empty mask), every call had a non-empty mask, the
\* two calls of a Split had non-empty masks that partition its mask, and
\* the arena holds one Leaf more than Splits.
BuildWellFounded ==
    /\ t_phase = "built"
    /\ \A c \in BuildVisits :
          /\ Len(c.mask) > 0
          /\ At(tr.tree, c.node).kind = "Sp" =>
                /\ Len(ChildMasksOf(c)[1]) > 0 /\ Len(ChildMasksOf(c)[2]) > 0
                /\ Len(ChildMasksOf(c)[1]) < Len(c.mask)
                /\ Len(ChildMasksOf(c)[2]) < Len(c.mask)
                /\ Partitions(ChildMasksOf(c)[1], ChildMasksOf(c)[2], c.mask)
    /\ Cardinality(BuildVisits) = Len(tr.tree)
    /\ Cardinality(NodesOfKind("Lf")) = Cardinality(NodesOfKind("Sp")) + 1

\* C30: build_tree on a non-empty bag mask ends without a panic: every
\* recursive call has a non-empty mask strictly smaller than its parent's,
\* the child masks of a Split partition its mask, no empty mask reaches
\* get_class, get_major_class or the scorer, and the arena holds exactly
\* one more Leaf than Split nodes.
C30_BuildTerminates ==
    t_phase # "new" /\ t_nbase = 0 /\ t_last = NoCall => BuildWellFounded

\* C30 happens: a build of two nested Splits from a bag of four rows.
C30_Witness ==
    /\ t_phase = "built" /\ t_nbase = 0 /\ t_last = NoCall
    /\ Len(t_bag) = 4
    /\ Cardinality(NodesOfKind("Sp")) = 2
    /\ Cardinality(NodesOfKind("Lf")) = 3

====
